---------------------------- MODULE Spec2Model ----------------------------
(***************************************************************************)
(* A model of the telemetry abstraction layer of @mastra/core:             *)
(*   - the real adapter's traceMethod / wrapMethod (adapters/otel-adapter),*)
(*   - the provider loader and its cache (telemetry/loader.ts),            *)
(*   - the Telemetry facade (telemetry/telemetry-wrapper.ts),              *)
(*   - the no-op context, baggage and tracer (telemetry/no-op.ts),         *)
(*   - the real adapter's traceClass and its proxies (otel-adapter).       *)
(* JavaScript runs one job at a time: every action below is one            *)
(* synchronous run of code (a call made by user code, or one promise       *)
(* reaction job taken from the microtask queue).                           *)
(***************************************************************************)
EXTENDS Integers, Sequences, FiniteSets, TLC

VARIABLES
    \* ---- traceMethod (otel-adapter) ----
    wrappers,      \* the wrapper functions traceMethod has returned so far
    calls,         \* one record per invocation of a wrapper, in call order
    spans,         \* the spans the tracer has started (index = span id)
    tpromises,     \* the promises of the traced calls (index = promise id)
    tjobs,         \* microtask queue: promise reaction jobs of the traced calls
    \* ---- loader.ts: loadTelemetryProvider and the event loop ----
    plds,          \* the loadTelemetryProvider activations (index = id)
    warnings,      \* what console.warn has printed, in order
    jobs,          \* microtask queue: continuations of the async functions
    \* ---- loader.ts: getTelemetry ----
    telemetryCache,\* Map<string, Promise<ITelemetry>>: a set of [key, promise]
    loads,         \* the createTelemetry activations (index = promise id)
    gets,          \* one record per getTelemetry call, in call order
    epoch,         \* number of clearTelemetryCache calls so far
    \* ---- telemetry-wrapper.ts ----
    instance,      \* Telemetry._instance: 0 (undefined) or the facade's id
    loadingPromise,\* Telemetry._loadingPromise: "undefined", "pending", "resolved"
    cachedProvider,\* module-level cachedProvider: "undefined", "noop", "real"
    backing,       \* _instance._telemetry
    activeFlag,    \* globalThis.__TELEMETRY_ACTIVE__ is true
    loadAsync,     \* the loadAsync activations (index = id)
    waits,         \* the waitForInit activations (index = id)
    inits,         \* one record per Telemetry.init call, in call order
    facades,       \* number of Telemetry objects constructed so far
    tgets,         \* one record per Telemetry.get call, in call order
    lastCall,      \* the latest use of a facade member by user code
    \* ---- no-op.ts ----
    ctxs,          \* the NoOpContext objects (index = identity), each its Map
    bags,          \* the NoOpBaggage objects (index = identity), each its Map
    ncalls,        \* one record per NoOpTracer.startActiveSpan call
    \* ---- traceClass (otel-adapter) ----
    objects,       \* the instances handed to traceClass (index = identity)
    traced,        \* one record per traceClass call, in call order
    pcalls,        \* one record per method call made through a proxy
    \* ---- users of a telemetry and of the facade's statics ----
    nwraps,        \* one record per traceClass/traceMethod call on a telemetry
    heldTracer,    \* the tracer reference user code has read from the facade
    tracerUses,    \* one record per call made on the held tracer
    statics,       \* one record per call of a static helper of Telemetry
    \* ---- OtelTelemetryProvider (otel-adapter) ----
    otelTelemetry, \* OtelTelemetryProvider.telemetry (static)
    pinits,        \* one record per OtelTelemetryProvider.init call
    enums,         \* one record per getAllMethodNames call
    \* ---- context-wrapper.ts ----
    activeContext, \* module-level activeContext
    moduleActiveSpan, \* module-level activeSpan
    wstack,        \* the context.with calls in progress (call stack)
    withs,         \* one record per completed context.with call
    acalls,        \* the context.withAsync activations (index = id)
    wjobs,         \* microtask queue of the withAsync continuations
    wcalls         \* one record per startActiveSpan call on a wrapper tracer

traceVars  == <<wrappers, calls, spans, tpromises, tjobs>>
loadVars   == <<plds, warnings, jobs>>
cacheVars  == <<telemetryCache, loads, gets, epoch>>
facadeVars == <<instance, loadingPromise, cachedProvider, backing, activeFlag,
                loadAsync, waits, inits, facades, tgets, lastCall>>
noopVars   == <<ctxs, bags, ncalls>>
classVars  == <<objects, traced, pcalls>>
wrapVars   == <<nwraps, heldTracer, tracerUses, statics>>
otelVars   == <<otelTelemetry, pinits, enums>>
ctxwVars   == <<activeContext, moduleActiveSpan, wstack, withs, acalls, wjobs, wcalls>>
vars == <<traceVars, loadVars, cacheVars, facadeVars, noopVars, classVars,
          wrapVars, otelVars, ctxwVars>>

\* ------------------------------------------------------------------ bounds
MaxCalls == 2
MaxWrappers == 2
MaxGets == 2
MaxClears == 1
MaxDirectLoads == 1
MaxInits == 2
MaxWaits == 1
MaxTelemetryGets == 2
MaxContexts == 4
MaxBaggages == 4
MaxTracerCalls == 2
MaxTraced == 2
MaxProxyCalls == 2
MaxNoOpWraps == 2
MaxProviderInits == 3
MaxEnumerations == 2
MaxTracerUses == 2
MaxStaticCalls == 3
MaxMapObjects == 4
MaxWithDepth == 3
MaxWiths == 3
MaxAsyncCalls == 3
MaxWrapperCalls == 2

\* ------------------------------------------------- helpers on sequences
Range(s) == {s[i] : i \in DOMAIN s}

\* ============================================================ traceMethod
\* SpanStatusCode of the interfaces: UNSET = 0, OK = 1, ERROR = 2.
UNSET == 0
OK == 1
ERROR == 2

\* A JavaScript value as the wrapper sees it: a plain value (truthy or falsy,
\* without a then method) or a promise (truthy, with a then method).
PlainValue(v, truthy) == [tag |-> "plain", v |-> v, truthy |-> truthy, pid |-> 0]
PromiseValue(p) == [tag |-> "promise", v |-> "", truthy |-> TRUE, pid |-> p]
Undefined == PlainValue("undefined", FALSE)

\* The functions user code passes to traceMethod: what a call of each does.
\*   add:   returns a truthy non-thenable value     (part_000 line 69)
\*   zero:  an anonymous function returning a falsy value
\*   boom:  throws synchronously                    (part_000 line 146)
\*   slow:  returns a pending promise, settled later (part_000 line 158)
Methods ==
    { [name |-> "add",  does |-> "return", value |-> PlainValue("five", TRUE)],
      [name |-> "",     does |-> "return", value |-> PlainValue("zero", FALSE)],
      [name |-> "boom", does |-> "throw",  value |-> PlainValue("Error(x)", TRUE)],
      [name |-> "slow", does |-> "async",  value |-> Undefined] }

\* What a pending promise of user code may settle with.
SettleValues == {PlainValue("done", TRUE), PlainValue("zero", FALSE)}
SettleErrors == {PlainValue("Error(late)", TRUE), Undefined}

\* TraceMethodOptions.spanName: absent, or a string.
NoOption == "<absent>"
SpanNameOptions == {NoOption, "op"}

\* const { spanName = method.name || 'anonymous' } = options || {}
SpanNameOf(method, spanNameOption) ==
    IF spanNameOption # NoOption THEN spanNameOption
    ELSE IF method.name # "" THEN method.name
    ELSE "anonymous"

\* The span as the tracing library records it: how often end() was called,
\* the status set, and the exceptions recorded, in order.
NewSpan(name) ==
    [name |-> name, ended |-> 0, status |-> UNSET, exceptions |-> <<>>]
SpanEnd(span) == [span EXCEPT !.ended = @ + 1]
SpanSetStatus(span, code) == [span EXCEPT !.status = code]
SpanRecordException(span, error) ==
    [span EXCEPT !.exceptions = Append(@, error)]

\* A wrapper that takes no result for a thenable.
IsThenableNever(result) == FALSE

\* if (result && typeof (result as any).then === 'function')
IsThenable(result) == result.truthy /\ result.tag = "promise"

\* A catch block that records and ends but swallows the error.
OnCatchSwallows(span, error) ==
    [span |-> SpanEnd(SpanSetStatus(SpanRecordException(span, error), ERROR)),
     outcome |-> [kind |-> "returned", result |-> Undefined]]

\* The catch block of the callback: record, mark, end, re-throw.
OnCatch(span, error) ==
    [span |-> SpanEnd(SpanSetStatus(SpanRecordException(span, error), ERROR)),
     outcome |-> [kind |-> "threw", result |-> error]]

\* A return path that also marks the span OK.
OnSyncReturnSetsOk(span, result) ==
    [span |-> SpanEnd(SpanSetStatus(span, OK)),
     outcome |-> [kind |-> "returned", result |-> result]]

\* The non-thenable path of the try block: span.end(); return result.
OnSyncReturn(span, result) ==
    [span |-> SpanEnd(span),
     outcome |-> [kind |-> "returned", result |-> result]]

\* The fulfilment handler handed to result.then: span.end(); return value.
OnFulfilled(span, value) ==
    [span |-> SpanEnd(span),
     outcome |-> [kind |-> "returned", result |-> value]]

\* A rejection handler that forgets to end the span.
OnRejectedSkipsEnd(span, error) ==
    [span |-> SpanSetStatus(SpanRecordException(span, error), ERROR),
     outcome |-> [kind |-> "threw", result |-> error]]

\* The rejection handler handed to result.then: record, mark, end, throw.
OnRejected(span, error) ==
    [span |-> SpanEnd(SpanSetStatus(SpanRecordException(span, error), ERROR)),
     outcome |-> [kind |-> "threw", result |-> error]]

\* A promise of the traced calls. A "method" promise is the one the user's
\* function returned; a "derived" promise is what result.then(...) returned,
\* with the source promise and the span its handlers close over.
MethodPromise ==
    [kind |-> "method", state |-> "pending", value |-> Undefined,
     source |-> 0, span |-> 0]
DerivedPromise(source, span) ==
    [kind |-> "derived", state |-> "pending", value |-> Undefined,
     source |-> source, span |-> span]

TraceInit ==
    /\ wrappers = {}
    /\ calls = <<>>
    /\ spans = <<>>
    /\ tpromises = <<>>
    /\ tjobs = <<>>

\* traceMethod(method, options): returns wrapMethod(method, options), a closure
\* over the method and the span name.
TraceMethod(method, spanNameOption) ==
    /\ Cardinality(wrappers) < MaxWrappers
    /\ wrappers' = wrappers \cup
           {[method |-> method, spanName |-> SpanNameOf(method, spanNameOption)]}
    /\ UNCHANGED <<calls, spans, tpromises, tjobs>>
    /\ UNCHANGED <<loadVars, cacheVars, facadeVars, noopVars, classVars,
                   wrapVars, otelVars, ctxwVars>>

\* method.apply(this, args): what the user's function does when called. An
\* async function returns a new pending promise, whose id is p.
Apply(method, p) ==
    IF method.does = "throw" THEN [kind |-> "threw", result |-> method.value]
    ELSE IF method.does = "return" THEN [kind |-> "returned", result |-> method.value]
    ELSE [kind |-> "returned", result |-> PromiseValue(p)]

\* One invocation of a wrapper: tracer.startActiveSpan(spanName, spanOptions,
\* callback) starts a span and runs the callback synchronously; the callback
\* applies the method inside try/catch. Each call records what the caller got
\* and how often the span had been ended when the wrapper returned.
InvokeWrapper(w) ==
    /\ Len(calls) < MaxCalls
    /\ LET sid     == Len(spans) + 1
           span    == NewSpan(w.spanName)
           p       == Len(tpromises) + 1
           applied == Apply(w.method, p)
           made    == IF w.method.does = "async" THEN <<MethodPromise>> ELSE <<>>
           chained == applied.kind = "returned" /\ IsThenable(applied.result)
           r       == IF applied.kind = "threw" THEN OnCatch(span, applied.result)
                      ELSE IF chained
                      THEN [span |-> span,
                            outcome |-> [kind |-> "returned",
                                         result |-> PromiseValue(p + 1)]]
                      ELSE OnSyncReturn(span, applied.result)
       IN /\ spans' = Append(spans, r.span)
          /\ tpromises' = tpromises \o made \o
                (IF chained THEN <<DerivedPromise(applied.result.pid, sid)>> ELSE <<>>)
          /\ calls' = Append(calls,
                [method |-> w.method, span |-> sid, outcome |-> r.outcome,
                 promise |-> IF w.method.does = "async" THEN p ELSE 0,
                 endedAtReturn |-> r.span.ended])
    /\ UNCHANGED <<wrappers, tjobs>>
    /\ UNCHANGED <<loadVars, cacheVars, facadeVars, noopVars, classVars,
                   wrapVars, otelVars, ctxwVars>>

\* The user's pending promise settles: its reaction (the handlers of the
\* derived promise) is queued as a microtask.
ReactionsOf(p) ==
    SelectSeq([d \in 1..Len(tpromises) |-> d], LAMBDA d : tpromises[d].source = p)

MethodPromiseFulfils(p, value) ==
    /\ tpromises[p].kind = "method" /\ tpromises[p].state = "pending"
    /\ tpromises' = [tpromises EXCEPT ![p].state = "fulfilled", ![p].value = value]
    /\ tjobs' = tjobs \o ReactionsOf(p)
    /\ UNCHANGED <<wrappers, calls, spans>>
    /\ UNCHANGED <<loadVars, cacheVars, facadeVars, noopVars, classVars,
                   wrapVars, otelVars, ctxwVars>>

MethodPromiseRejects(p, error) ==
    /\ tpromises[p].kind = "method" /\ tpromises[p].state = "pending"
    /\ tpromises' = [tpromises EXCEPT ![p].state = "rejected", ![p].value = error]
    /\ tjobs' = tjobs \o ReactionsOf(p)
    /\ UNCHANGED <<wrappers, calls, spans>>
    /\ UNCHANGED <<loadVars, cacheVars, facadeVars, noopVars, classVars,
                   wrapVars, otelVars, ctxwVars>>

\* The promise reaction job: runs the handler that matches the source's
\* state and settles the derived promise with what the handler returns or
\* throws.
Settle(promise, outcome) ==
    [promise EXCEPT !.state = IF outcome.kind = "returned"
                              THEN "fulfilled" ELSE "rejected",
                    !.value = outcome.result]

RunTraceReaction ==
    /\ tjobs # <<>>
    /\ LET d   == Head(tjobs)
           src == tpromises[tpromises[d].source]
           sid == tpromises[d].span
           r   == IF src.state = "fulfilled"
                  THEN OnFulfilled(spans[sid], src.value)
                  ELSE OnRejected(spans[sid], src.value)
       IN /\ spans' = [spans EXCEPT ![sid] = r.span]
          /\ tpromises' = [tpromises EXCEPT ![d] = Settle(@, r.outcome)]
    /\ tjobs' = Tail(tjobs)
    /\ UNCHANGED <<wrappers, calls>>
    /\ UNCHANGED <<loadVars, cacheVars, facadeVars, noopVars, classVars,
                   wrapVars, otelVars, ctxwVars>>

\* ================================================================ loader.ts
\* An OtelConfig object: absent (undefined), or its own properties in
\* insertion order. A property is a boolean or a string.
BoolField(key, b) == [key |-> key, type |-> "bool", b |-> b, s |-> ""]
StrField(key, str) == [key |-> key, type |-> "string", b |-> FALSE, s |-> str]
ConfigUndefined == [defined |-> FALSE, fields |-> <<>>]
ConfigOf(fields) == [defined |-> TRUE, fields |-> fields]

\* The configurations user code passes: none, enabled absent, disabled, and
\* the same enabled configuration written in two property orders.
Configs ==
    { ConfigUndefined,
      ConfigOf(<<StrField("serviceName", "svc")>>),
      ConfigOf(<<BoolField("enabled", FALSE)>>),
      ConfigOf(<<BoolField("enabled", TRUE), StrField("serviceName", "svc")>>),
      ConfigOf(<<StrField("serviceName", "svc"), BoolField("enabled", TRUE)>>) }

\* The configurations user code calls loadTelemetryProvider with.
DirectLoadConfigs ==
    { ConfigUndefined,
      ConfigOf(<<BoolField("enabled", TRUE), StrField("serviceName", "svc")>>) }

\* The configurations the getTelemetry calls are drawn from.
LoaderConfigs ==
    { ConfigUndefined,
      ConfigOf(<<BoolField("enabled", TRUE), StrField("serviceName", "svc")>>),
      ConfigOf(<<StrField("serviceName", "svc"), BoolField("enabled", TRUE)>>) }

\* config?.enabled is truthy
Enabled(config) ==
    /\ config.defined
    /\ \E i \in DOMAIN config.fields :
          /\ config.fields[i].key = "enabled"
          /\ config.fields[i].type = "bool"
          /\ config.fields[i].b

\* JSON.stringify of a property value, of the properties in insertion order,
\* and of a configuration (undefined for an absent one).
JSONValue(f) ==
    IF f.type = "bool" THEN (IF f.b THEN "true" ELSE "false")
    ELSE "\"" \o f.s \o "\""

RECURSIVE JSONMembers(_)
JSONMembers(fields) ==
    IF fields = <<>> THEN ""
    ELSE LET f == Head(fields)
             member == "\"" \o f.key \o "\":" \o JSONValue(f)
         IN IF Tail(fields) = <<>> THEN member
            ELSE member \o "," \o JSONMembers(Tail(fields))

JSONStringify(config) ==
    IF ~config.defined THEN "undefined"
    ELSE "{" \o JSONMembers(config.fields) \o "}"

\* const cacheKey = `${name}:${JSON.stringify(config)}`
CacheKey(name, config) == name \o ":" \o JSONStringify(config)

\* What the dynamic import of '@mastra/telemetry' may do: resolve with the
\* module, resolve with a module whose MastraTelemetry cannot be constructed,
\* or reject because the package is not installed.
ImportOutcomes == {"module", "badModule", "notFound"}

\* The warning of loadTelemetryProvider's catch block.
NotInstalledWarning(pl) ==
    [text |-> "Telemetry enabled but @mastra/telemetry not installed. "
              \o "Install it with: npm install @mastra/telemetry",
     by |-> "loadTelemetryProvider", id |-> pl]

\* A loader without the disabled short-circuit.
StartProviderLoadSkipsCheck(config, caller, owner) ==
    [config |-> config, caller |-> caller, owner |-> owner,
     import |-> "pending", state |-> "pending", provider |-> "none"]

\* loadTelemetryProvider(config) up to its first suspension: the disabled
\* short-circuit returns the no-op provider; otherwise the import is started
\* and the function waits for it.
StartProviderLoad(config, caller, owner) ==
    IF ~Enabled(config)
    THEN [config |-> config, caller |-> caller, owner |-> owner,
          import |-> "none", state |-> "fulfilled", provider |-> "noop"]
    ELSE [config |-> config, caller |-> caller, owner |-> owner,
          import |-> "pending", state |-> "pending", provider |-> "none"]

\* A loader whose catch block re-throws instead of falling back.
FinishProviderLoadRethrows(pl, id) ==
    IF pl.import = "module"
    THEN [pld |-> [pl EXCEPT !.state = "fulfilled", !.provider = "real"],
          warned |-> <<>>]
    ELSE [pld |-> [pl EXCEPT !.state = "rejected"], warned |-> <<>>]

\* loadTelemetryProvider after the import settled: new MastraTelemetry(), or
\* the catch block (warn, fall back to the no-op provider).
FinishProviderLoad(pl, id) ==
    IF pl.import = "module"
    THEN [pld |-> [pl EXCEPT !.state = "fulfilled", !.provider = "real"],
          warned |-> <<>>]
    ELSE [pld |-> [pl EXCEPT !.state = "fulfilled", !.provider = "noop"],
          warned |-> <<NotInstalledWarning(id)>>]

\* The continuation of whoever awaits the promise of a loadTelemetryProvider
\* call, as a microtask (user code awaiting it is not modelled).
AwaiterJob(pl) ==
    IF pl.caller = "createTelemetry" THEN <<[kind |-> "create", id |-> pl.owner]>>
    ELSE IF pl.caller = "loadAsync" THEN <<[kind |-> "loadAsync", id |-> pl.owner]>>
    ELSE <<>>

LoadInit ==
    /\ plds = <<>>
    /\ warnings = <<>>
    /\ jobs = <<>>

\* The import promise settles; loadTelemetryProvider's continuation is queued.
ImportSettles(id, outcome) ==
    /\ plds[id].import = "pending"
    /\ plds' = [plds EXCEPT ![id].import = outcome]
    /\ jobs' = Append(jobs, [kind |-> "provider", id |-> id])
    /\ UNCHANGED warnings
    /\ UNCHANGED <<traceVars, cacheVars, facadeVars, noopVars, classVars,
                   wrapVars, otelVars, ctxwVars>>

\* The microtask that resumes loadTelemetryProvider after its await.
RunProviderContinuation ==
    /\ jobs # <<>> /\ Head(jobs).kind = "provider"
    /\ LET id == Head(jobs).id
           r  == FinishProviderLoad(plds[id], id)
       IN /\ plds' = [plds EXCEPT ![id] = r.pld]
          /\ warnings' = warnings \o r.warned
          /\ jobs' = Tail(jobs) \o AwaiterJob(r.pld)
    /\ UNCHANGED <<traceVars, cacheVars, facadeVars, noopVars, classVars,
                   wrapVars, otelVars, ctxwVars>>

\* loadTelemetryProvider(config) called by user code.
LoadTelemetryProviderCall(config) ==
    /\ Cardinality({i \in DOMAIN plds : plds[i].caller = "user"}) < MaxDirectLoads
    /\ plds' = Append(plds, StartProviderLoad(config, "user", 0))
    /\ UNCHANGED <<warnings, jobs>>
    /\ UNCHANGED <<traceVars, cacheVars, facadeVars, noopVars, classVars,
                   wrapVars, otelVars, ctxwVars>>

\* ------------------------------------------------- getTelemetry and its cache
Names == {"a", "b"}

\* A cache that forgets an entry once its load has settled.
CacheHasPendingOnly(key) ==
    \E e \in telemetryCache : e.key = key /\ loads[e.promise].state = "pending"

\* telemetryCache.has(cacheKey) and telemetryCache.get(cacheKey)
CacheHas(key) == \E e \in telemetryCache : e.key = key
CacheGet(key) == (CHOOSE e \in telemetryCache : e.key = key).promise

\* A getTelemetry that never finds its entry.
NeedsLoadAlways(key) == TRUE

\* if (!telemetryCache.has(cacheKey)): a new createTelemetry is needed
NeedsLoad(key) == ~CacheHas(key)

\* The ITelemetry a provider's init returns. The no-op provider returns its
\* NoOpTelemetry (name 'noop'); the real provider names it by serviceName.
NoOpTelemetry == [impl |-> "noop", name |-> "noop"]
RealTelemetry(serviceName) == [impl |-> "real", name |-> serviceName]
NoTelemetry == [impl |-> "none", name |-> ""]

\* createTelemetry(name, config) up to its await: it calls
\* loadTelemetryProvider and waits for its promise.
StartCreateTelemetry(name, config, pl) ==
    [name |-> name, config |-> config, key |-> CacheKey(name, config),
     epoch |-> epoch, pld |-> pl, state |-> "pending", telemetry |-> NoTelemetry]

\* createTelemetry after its await: provider.init({...config, serviceName: name}).
\* The real provider is code of the optional package: its init returns a
\* telemetry or throws.
FinishCreateTelemetry(load, pl, initThrows) ==
    IF pl.state = "rejected" \/ (pl.provider = "real" /\ initThrows)
    THEN [load EXCEPT !.state = "rejected"]
    ELSE [load EXCEPT !.state = "fulfilled",
                      !.telemetry = IF pl.provider = "real"
                                    THEN RealTelemetry(load.name)
                                    ELSE NoOpTelemetry]

CacheInit ==
    /\ telemetryCache = {}
    /\ loads = <<>>
    /\ gets = <<>>
    /\ epoch = 0

\* getTelemetry(name, config): one synchronous run. A miss runs createTelemetry
\* up to its first await and stores its promise; the stored promise is returned.
GetTelemetry(name, config) ==
    /\ Len(gets) < MaxGets
    /\ LET key == CacheKey(name, config)
           lid == Len(loads) + 1
           pid == Len(plds) + 1
           pl  == StartProviderLoad(config, "createTelemetry", lid)
       IN IF NeedsLoad(key)
          THEN /\ plds' = Append(plds, pl)
               /\ loads' = Append(loads, StartCreateTelemetry(name, config, pid))
               /\ jobs' = jobs \o (IF pl.state = "pending" THEN <<>> ELSE AwaiterJob(pl))
               /\ telemetryCache' =
                      {e \in telemetryCache : e.key # key}
                          \cup {[key |-> key, promise |-> lid]}
               /\ gets' = Append(gets,
                      [name |-> name, config |-> config, promise |-> lid,
                       epoch |-> epoch, started |-> TRUE, settledBefore |-> FALSE])
          ELSE /\ gets' = Append(gets,
                      [name |-> name, config |-> config, promise |-> CacheGet(key),
                       epoch |-> epoch, started |-> FALSE,
                       settledBefore |-> loads[CacheGet(key)].state # "pending"])
               /\ UNCHANGED <<plds, loads, jobs, telemetryCache>>
    /\ UNCHANGED <<warnings, epoch>>
    /\ UNCHANGED <<traceVars, facadeVars, noopVars, classVars,
                   wrapVars, otelVars, ctxwVars>>

\* The microtask that resumes createTelemetry after its await.
RunCreateContinuation(initThrows) ==
    /\ jobs # <<>> /\ Head(jobs).kind = "create"
    /\ LET lid == Head(jobs).id
       IN loads' = [loads EXCEPT
              ![lid] = FinishCreateTelemetry(@, plds[loads[lid].pld], initThrows)]
    /\ jobs' = Tail(jobs)
    /\ UNCHANGED <<plds, warnings, telemetryCache, gets, epoch>>
    /\ UNCHANGED <<traceVars, facadeVars, noopVars, classVars,
                   wrapVars, otelVars, ctxwVars>>

\* clearTelemetryCache()
ClearTelemetryCache ==
    /\ epoch < MaxClears
    /\ telemetryCache' = {}
    /\ epoch' = epoch + 1
    /\ UNCHANGED <<loads, gets, plds, warnings, jobs>>
    /\ UNCHANGED <<traceVars, facadeVars, noopVars, classVars,
                   wrapVars, otelVars, ctxwVars>>

\* ======================================================= telemetry-wrapper.ts
\* What the facade forwards to. init creates a NoOpTelemetry of its own; the
\* background load replaces it by what the provider's init returns.
\* An init that hands out a facade already backed by a real telemetry.
InitialBackingReal == [impl |-> "real", name |-> "svc", by |-> "init"]

InitialBacking == [impl |-> "noop", name |-> "noop", by |-> "init"]
NoBacking == [impl |-> "none", name |-> "", by |-> "nobody"]

\* config.serviceName, for the telemetry a real provider returns
ServiceName(config) ==
    IF config.defined /\ \E i \in DOMAIN config.fields : config.fields[i].key = "serviceName"
    THEN LET i == CHOOSE j \in DOMAIN config.fields : config.fields[j].key = "serviceName"
         IN config.fields[i].s
    ELSE "undefined"

\* cachedProvider.init(config)
ProviderInit(provider, config) ==
    IF provider = "real"
    THEN [impl |-> "real", name |-> ServiceName(config), by |-> "provider"]
    ELSE [impl |-> "noop", name |-> "noop", by |-> "provider"]

\* The warning of loadAsync's catch block.
FailedToLoadWarning(aid) ==
    [text |-> "Failed to load telemetry provider:", by |-> "loadAsync", id |-> aid]

\* A loadAsync that raises the flag before it calls the provider's init.
LoadAsyncBodyFlagFirst(provider, rejected, config, initThrows, aid) ==
    IF rejected
    THEN [cachedProvider |-> cachedProvider, backing |-> backing,
          activeFlag |-> activeFlag, warned |-> <<FailedToLoadWarning(aid)>>,
          outcome |-> "caught"]
    ELSE IF provider = "real" /\ initThrows
    THEN [cachedProvider |-> provider, backing |-> backing,
          activeFlag |-> TRUE, warned |-> <<FailedToLoadWarning(aid)>>,
          outcome |-> "caught"]
    ELSE [cachedProvider |-> provider,
          backing |-> ProviderInit(provider, config),
          activeFlag |-> TRUE, warned |-> <<>>, outcome |-> "upgraded"]

\* The body of loadAsync once the provider is known (after the await, or at
\* once when cachedProvider is already set): init the provider, upgrade the
\* instance, raise the flag; the catch block warns instead. The result is the
\* new value of each thing loadAsync writes.
LoadAsyncBody(provider, rejected, config, initThrows, aid) ==
    IF rejected
    THEN [cachedProvider |-> cachedProvider, backing |-> backing,
          activeFlag |-> activeFlag, warned |-> <<FailedToLoadWarning(aid)>>,
          outcome |-> "caught"]
    ELSE IF provider = "real" /\ initThrows
    THEN [cachedProvider |-> provider, backing |-> backing,
          activeFlag |-> activeFlag, warned |-> <<FailedToLoadWarning(aid)>>,
          outcome |-> "caught"]
    ELSE [cachedProvider |-> provider,
          backing |-> ProviderInit(provider, config),
          activeFlag |-> TRUE, warned |-> <<>>, outcome |-> "upgraded"]

\* An init without its singleton guard.
AlreadyInitializedNever == FALSE

\* if (this._instance) return this._instance
AlreadyInitialized == instance # 0

\* The continuations of the waitForInit calls that await loadAsync's promise,
\* in the order they began to wait.
WaiterJobs(aid) ==
    SelectSeq([i \in 1..Len(waits) |-> [kind |-> "wait", id |-> i]],
              LAMBDA j : waits[j.id].pc = "awaitLoading" /\ waits[j.id].awaited = aid)

\* No member of the facade has been used yet.
NoCall ==
    [op |-> "none", facade |-> 0, handledBy |-> NoBacking, swappedAtCall |-> FALSE]

FacadeInit ==
    /\ instance = 0
    /\ loadingPromise = 0
    /\ cachedProvider = "undefined"
    /\ backing = NoBacking
    /\ activeFlag = FALSE
    /\ loadAsync = <<>>
    /\ waits = <<>>
    /\ inits = <<>>
    /\ facades = 0
    /\ tgets = <<>>
    /\ lastCall = NoCall

\* Telemetry.init(config), as one synchronous run: what it writes. loadAsync
\* runs inside it up to its first await.
InitBody(config, jobsBefore) ==
    IF AlreadyInitialized
    THEN /\ inits' = Append(inits,
                [returned |-> instance, created |-> FALSE, backing |-> backing,
                 loadPending |-> \E a \in DOMAIN loadAsync : loadAsync[a].pc # "done"])
         /\ jobs' = jobsBefore
         /\ UNCHANGED <<instance, facades, backing, loadingPromise, loadAsync,
                        cachedProvider, activeFlag, plds, warnings>>
    ELSE /\ facades' = facades + 1
         /\ instance' = facades + 1
         /\ IF loadingPromise # 0
            THEN /\ backing' = InitialBacking
                 /\ jobs' = jobsBefore
                 /\ UNCHANGED <<loadingPromise, loadAsync, cachedProvider,
                                activeFlag, plds, warnings>>
            ELSE LET aid == Len(loadAsync) + 1
                 IN /\ loadingPromise' = aid
                    /\ IF cachedProvider = "undefined"
                       THEN LET pl == StartProviderLoad(config, "loadAsync", aid)
                            IN /\ plds' = Append(plds, pl)
                               /\ loadAsync' = Append(loadAsync,
                                     [config |-> config, pc |-> "awaitProvider",
                                      pld |-> Len(plds) + 1, outcome |-> "none"])
                               /\ jobs' = jobsBefore \o
                                     (IF pl.state = "pending" THEN <<>> ELSE AwaiterJob(pl))
                               /\ backing' = InitialBacking
                               /\ UNCHANGED <<cachedProvider, activeFlag, warnings>>
                       ELSE \E initThrows \in BOOLEAN :
                            LET r == LoadAsyncBody(cachedProvider, FALSE, config,
                                                   initThrows, aid)
                            IN /\ loadAsync' = Append(loadAsync,
                                     [config |-> config, pc |-> "done",
                                      pld |-> 0, outcome |-> r.outcome])
                               /\ backing' = IF r.outcome = "upgraded" THEN r.backing
                                             ELSE InitialBacking
                               /\ activeFlag' = r.activeFlag
                               /\ warnings' = warnings \o r.warned
                               /\ jobs' = jobsBefore
                               /\ UNCHANGED <<cachedProvider, plds>>
         /\ inits' = Append(inits,
                [returned |-> instance', created |-> TRUE, backing |-> backing',
                 loadPending |-> \E a \in DOMAIN loadAsync' : loadAsync'[a].pc # "done"])

\* Telemetry.init(config) called by user code.
TelemetryInit(config) ==
    /\ Len(inits) < MaxInits
    /\ InitBody(config, jobs)
    /\ UNCHANGED waits
    /\ UNCHANGED <<traceVars, cacheVars, tgets, lastCall, noopVars, classVars,
                   wrapVars, otelVars, ctxwVars>>

\* The microtask that resumes loadAsync after `await loadTelemetryProvider`.
RunLoadAsyncContinuation(initThrows) ==
    /\ jobs # <<>> /\ Head(jobs).kind = "loadAsync"
    /\ LET aid == Head(jobs).id
           pl  == plds[loadAsync[aid].pld]
           r   == LoadAsyncBody(pl.provider, pl.state = "rejected",
                                loadAsync[aid].config, initThrows, aid)
       IN /\ cachedProvider' = r.cachedProvider
          /\ backing' = IF instance # 0 THEN r.backing ELSE backing
          /\ activeFlag' = r.activeFlag
          /\ warnings' = warnings \o r.warned
          /\ loadAsync' = [loadAsync EXCEPT ![aid].pc = "done",
                                            ![aid].outcome = r.outcome]
          /\ jobs' = Tail(jobs) \o WaiterJobs(aid)
    /\ UNCHANGED <<instance, loadingPromise, waits, inits, facades, plds>>
    /\ UNCHANGED <<traceVars, cacheVars, tgets, lastCall, noopVars, classVars,
                   wrapVars, otelVars, ctxwVars>>

\* Telemetry.waitForInit() up to its first await, or to its end when there is
\* nothing to await.
WaitForInit ==
    /\ Len(waits) < MaxWaits
    /\ IF loadingPromise # 0
       THEN /\ waits' = Append(waits,
                   [pc |-> "awaitLoading", awaited |-> loadingPromise, result |-> 0])
            /\ jobs' = jobs \o
                   (IF loadAsync[loadingPromise].pc = "done"
                    THEN <<[kind |-> "wait", id |-> Len(waits) + 1]>> ELSE <<>>)
            /\ UNCHANGED <<instance, facades, backing, loadingPromise, loadAsync,
                           cachedProvider, activeFlag, plds, warnings, inits>>
       ELSE /\ IF instance = 0
               THEN InitBody(ConfigUndefined, jobs)
               ELSE UNCHANGED <<instance, facades, backing, loadingPromise, loadAsync,
                                cachedProvider, activeFlag, plds, jobs, warnings, inits>>
            /\ waits' = Append(waits,
                   [pc |-> "resolved", awaited |-> 0, result |-> instance'])
    /\ UNCHANGED <<traceVars, cacheVars, tgets, lastCall, noopVars, classVars,
                   wrapVars, otelVars, ctxwVars>>

\* The microtask that resumes waitForInit after `await this._loadingPromise`.
RunWaitContinuation ==
    /\ jobs # <<>> /\ Head(jobs).kind = "wait"
    /\ LET wid == Head(jobs).id
       IN /\ IF instance = 0
             THEN InitBody(ConfigUndefined, Tail(jobs))
             ELSE /\ jobs' = Tail(jobs)
                  /\ UNCHANGED <<instance, facades, backing, loadingPromise, loadAsync,
                                 cachedProvider, activeFlag, plds, warnings, inits>>
          /\ waits' = [waits EXCEPT ![wid].pc = "resolved", ![wid].result = instance']
    /\ UNCHANGED <<traceVars, cacheVars, tgets, lastCall, noopVars, classVars,
                   wrapVars, otelVars, ctxwVars>>

\* A get that hands out undefined instead of throwing.
GetThrowsNever == FALSE

\* if (!this._instance) throw new Error(...)
GetThrows == instance = 0

\* The message of the error Telemetry.get throws.
NotInitializedError == "Telemetry not initialized. Call Telemetry.init() first."

\* Telemetry.get() called by user code: throws, or returns the singleton. The
\* record keeps whether an init had created the singleton before the call.
TelemetryGet ==
    /\ Len(tgets) < MaxTelemetryGets
    /\ tgets' = Append(tgets,
           IF GetThrows
           THEN [outcome |-> "threw", error |-> NotInitializedError, result |-> 0,
                 createdAtCall |-> \E i \in DOMAIN inits : inits[i].created]
           ELSE [outcome |-> "returned", error |-> "", result |-> instance,
                 createdAtCall |-> \E i \in DOMAIN inits : inits[i].created])
    /\ UNCHANGED <<instance, loadingPromise, cachedProvider, backing, activeFlag,
                   loadAsync, waits, inits, facades, lastCall>>
    /\ UNCHANGED <<traceVars, loadVars, cacheVars, noopVars, classVars,
                   wrapVars, otelVars, ctxwVars>>

\* The members of a Telemetry object that forward to this._telemetry.
FacadeOps ==
    {"tracer", "name", "traceClass", "traceMethod", "shutdown", "getBaggageTracer"}

\* A facade that keeps forwarding to the telemetry it was constructed with.
ForwardTargetInitial == InitialBacking

\* this._telemetry, read at the time of the call
ForwardTarget == backing

\* A shutdown that lowers the process-wide flag.
TelemetryShutdownResets(telemetry) == FALSE

\* telemetry.shutdown(): the no-op and the adapter implementation both have an
\* empty body; the result is the process-wide flag once it has returned.
TelemetryShutdown(telemetry) == activeFlag

\* User code holding the facade uses one of its members. The record keeps the
\* telemetry that served the call and whether a background load had already
\* replaced the backing when the call was made.
FacadeUse(op) ==
    /\ instance # 0
    /\ lastCall' = [op |-> op, facade |-> instance, handledBy |-> ForwardTarget,
                    swappedAtCall |-> \E a \in DOMAIN loadAsync :
                                          loadAsync[a].outcome = "upgraded"]
    /\ activeFlag' = IF op = "shutdown" THEN TelemetryShutdown(ForwardTarget)
                     ELSE activeFlag
    /\ UNCHANGED <<instance, loadingPromise, cachedProvider, backing,
                   loadAsync, waits, inits, facades, tgets>>
    /\ UNCHANGED <<traceVars, loadVars, cacheVars, noopVars, classVars,
                   wrapVars, otelVars, ctxwVars>>

\* hasActiveTelemetry(): return !!g.__TELEMETRY_ACTIVE__
HasActiveTelemetry == activeFlag

\* ================================================================== no-op.ts
\* A JavaScript Map: its entries [k, v] in insertion order.
MapHas(m, k) == \E i \in DOMAIN m : m[i].k = k
MapGet(m, k) ==
    IF MapHas(m, k) THEN m[CHOOSE i \in DOMAIN m : m[i].k = k].v ELSE "undefined"
\* A set that keeps the value of a key that is already there.
MapSetKeepsOld(m, k, v) ==
    IF MapHas(m, k) THEN m ELSE Append(m, [k |-> k, v |-> v])

\* m.set(k, v)
MapSet(m, k, v) ==
    IF MapHas(m, k) THEN [i \in DOMAIN m |-> IF m[i].k = k THEN [k |-> k, v |-> v] ELSE m[i]]
    ELSE Append(m, [k |-> k, v |-> v])

\* m.forEach((v, k) => { if (k is not one of keys) target.set(k, v) }) into a
\* new empty Map.
MapCopyExcept(m, keys) == SelectSeq(m, LAMBDA e : e.k \notin keys)

\* The symbols used as context keys and the values stored under them.
ContextKeys == {"k1", "k2"}
ContextValues == {"v1", "v2"}

\* An object of the heap: its private Map, and how it was made (which call on
\* which object returned it).
MadeBy(op, from, key, value) ==
    [op |-> op, from |-> from, key |-> key, value |-> value, keys |-> <<>>]
HeapObject(map, made) == [map |-> map, made |-> made]

\* new NoOpContext(): private values = new Map()
NewNoOpContext == HeapObject(<<>>, MadeBy("new", 0, "", ""))

\* c.getValue(key)
ContextGetValue(heap, c, key) == MapGet(heap[c].map, key)

\* A setValue that also writes the key into the source context.
ContextSetValueInPlace(heap, c, key, value) ==
    Append([heap EXCEPT ![c].map = MapSet(@, key, value)],
           HeapObject(MapSet(heap[c].map, key, value), MadeBy("setValue", c, key, value)))

\* c.setValue(key, value): the heap after the call; the new context is its
\* last object.
ContextSetValue(heap, c, key, value) ==
    Append(heap,
           HeapObject(MapSet(MapCopyExcept(heap[c].map, {}), key, value),
                      MadeBy("setValue", c, key, value)))

\* c.deleteValue(key)
ContextDeleteValue(heap, c, key) ==
    Append(heap,
           HeapObject(MapCopyExcept(heap[c].map, {key}),
                      MadeBy("deleteValue", c, key, "")))

\* User code makes a context, or derives one from a context it holds.
CreateContext ==
    /\ Len(ctxs) < MaxContexts
    /\ ctxs' = Append(ctxs, NewNoOpContext)
    /\ UNCHANGED <<bags, ncalls>>
    /\ UNCHANGED <<traceVars, loadVars, cacheVars, facadeVars, classVars,
                   wrapVars, otelVars, ctxwVars>>

SetValue(c, key, value) ==
    /\ Len(ctxs) < MaxContexts
    /\ ctxs' = ContextSetValue(ctxs, c, key, value)
    /\ UNCHANGED <<bags, ncalls>>
    /\ UNCHANGED <<traceVars, loadVars, cacheVars, facadeVars, classVars,
                   wrapVars, otelVars, ctxwVars>>

DeleteValue(c, key) ==
    /\ Len(ctxs) < MaxContexts
    /\ ctxs' = ContextDeleteValue(ctxs, c, key)
    /\ UNCHANGED <<bags, ncalls>>
    /\ UNCHANGED <<traceVars, loadVars, cacheVars, facadeVars, classVars,
                   wrapVars, otelVars, ctxwVars>>

\* ---------------------------------------------------------------- NoOpBaggage
\* The baggage keys and the BaggageEntry objects stored under them.
BaggageKeys == {"k1", "k2"}
BaggageEntries == {"e1", "e2"}
KeyLists == {<<>>, <<"k1">>, <<"k2">>, <<"k1", "k2">>}

\* new NoOpBaggage(): private entries = new Map()
NewNoOpBaggage == HeapObject(<<>>, MadeBy("new", 0, "", ""))

\* b.getEntry(key) and b.getAllEntries()
BaggageGetEntry(heap, b, key) == MapGet(heap[b].map, key)
BaggageGetAllEntries(heap, b) == heap[b].map

\* A setEntry that also writes the entry into the source baggage.
BaggageSetEntryInPlace(heap, b, key, entry) ==
    Append([heap EXCEPT ![b].map = MapSet(@, key, entry)],
           HeapObject(MapSet(heap[b].map, key, entry), MadeBy("setEntry", b, key, entry)))

\* b.setEntry(key, entry)
BaggageSetEntry(heap, b, key, entry) ==
    Append(heap,
           HeapObject(MapSet(MapCopyExcept(heap[b].map, {}), key, entry),
                      MadeBy("setEntry", b, key, entry)))

\* b.removeEntry(key)
BaggageRemoveEntry(heap, b, key) ==
    Append(heap,
           HeapObject(MapCopyExcept(heap[b].map, {key}),
                      MadeBy("removeEntry", b, key, "")))

\* b.removeEntries(...keys): keySet = new Set(keys)
BaggageRemoveEntries(heap, b, keys) ==
    Append(heap,
           HeapObject(MapCopyExcept(heap[b].map, Range(keys)),
                      [MadeBy("removeEntries", b, "", "") EXCEPT !.keys = keys]))

\* b.clear()
BaggageClear(heap, b) ==
    Append(heap, HeapObject(<<>>, MadeBy("clear", b, "", "")))

\* User code makes a baggage, or derives one from a baggage it holds.
CreateBaggage ==
    /\ Len(bags) < MaxBaggages
    /\ bags' = Append(bags, NewNoOpBaggage)
    /\ UNCHANGED <<ctxs, ncalls>>
    /\ UNCHANGED <<traceVars, loadVars, cacheVars, facadeVars, classVars,
                   wrapVars, otelVars, ctxwVars>>

SetEntry(b, key, entry) ==
    /\ Len(bags) < MaxBaggages
    /\ bags' = BaggageSetEntry(bags, b, key, entry)
    /\ UNCHANGED <<ctxs, ncalls>>
    /\ UNCHANGED <<traceVars, loadVars, cacheVars, facadeVars, classVars,
                   wrapVars, otelVars, ctxwVars>>

RemoveEntry(b, key) ==
    /\ Len(bags) < MaxBaggages
    /\ bags' = BaggageRemoveEntry(bags, b, key)
    /\ UNCHANGED <<ctxs, ncalls>>
    /\ UNCHANGED <<traceVars, loadVars, cacheVars, facadeVars, classVars,
                   wrapVars, otelVars, ctxwVars>>

RemoveEntries(b, keys) ==
    /\ Len(bags) < MaxBaggages
    /\ bags' = BaggageRemoveEntries(bags, b, keys)
    /\ UNCHANGED <<ctxs, ncalls>>
    /\ UNCHANGED <<traceVars, loadVars, cacheVars, facadeVars, classVars,
                   wrapVars, otelVars, ctxwVars>>

Clear(b) ==
    /\ Len(bags) < MaxBaggages
    /\ bags' = BaggageClear(bags, b)
    /\ UNCHANGED <<ctxs, ncalls>>
    /\ UNCHANGED <<traceVars, loadVars, cacheVars, facadeVars, classVars,
                   wrapVars, otelVars, ctxwVars>>

\* ------------------------------------------------------------------ NoOpTracer
\* The arguments user code passes to startActiveSpan: the span name, the
\* options, a context, and the callback (what a call of it does).
NameArg == [tag |-> "string", does |-> "", value |-> Undefined]
OptionsArg == [tag |-> "options", does |-> "", value |-> Undefined]
ContextArg == [tag |-> "context", does |-> "", value |-> Undefined]
FunctionArg(does, value) == [tag |-> "function", does |-> does, value |-> value]

Callbacks ==
    { FunctionArg("return", PlainValue("result", TRUE)),
      FunctionArg("return", Undefined),
      FunctionArg("return", PromiseValue(1)),
      FunctionArg("throw", PlainValue("Error(cb)", TRUE)) }

\* The call shapes of ITracer.startActiveSpan.
CallShapes(fn) ==
    { <<NameArg, fn>>, <<NameArg, OptionsArg, fn>>, <<NameArg, OptionsArg, ContextArg, fn>> }

\* private static readonly NOOP_SPAN = new NoOpSpan()
NOOP_SPAN == "NoOpTracer.NOOP_SPAN"

\* fn(arg): calling a value. A function runs once with the argument and
\* returns or throws; calling anything else throws a TypeError.
CallValue(fn, arg) ==
    IF fn.tag # "function"
    THEN [received |-> <<>>,
          outcome |-> [kind |-> "threw", result |-> PlainValue("TypeError", TRUE)]]
    ELSE [received |-> <<arg>>,
          outcome |-> [kind |-> IF fn.does = "throw" THEN "threw" ELSE "returned",
                       result |-> fn.value]]

\* A tracer that takes its second argument for the callback.
StartActiveSpanSecondArg(args) == CallValue(args[2], NOOP_SPAN)

\* startActiveSpan(...args): const fn = args[args.length - 1];
\* return fn(NoOpTracer.NOOP_SPAN)
StartActiveSpan(args) == CallValue(args[Len(args)], NOOP_SPAN)

\* User code calls startActiveSpan of a NoOpTracer. The record keeps what the
\* callback received while the call ran and what the caller got.
TracerCall(args) ==
    /\ Len(ncalls) < MaxTracerCalls
    /\ LET r == StartActiveSpan(args)
       IN ncalls' = Append(ncalls,
              [args |-> args, received |-> r.received, outcome |-> r.outcome])
    /\ UNCHANGED <<ctxs, bags>>
    /\ UNCHANGED <<traceVars, loadVars, cacheVars, facadeVars, classVars,
                   wrapVars, otelVars, ctxwVars>>

\* ================================================ traceClass (otel-adapter)
\* The class of the instances handed to traceClass: a field `value` and, on
\* its prototype, getValue and setValue (part_000 lines 120-128), a method that
\* throws and an async method.
TestClassPrototype == <<"constructor", "getValue", "setValue", "boom", "slow">>
TestClassFields == <<"value">>
NewTestClass == [value |-> PlainValue("42", TRUE)]

\* The prototype chain of an instance, Object.prototype excluded: the own
\* property names of each object on it.
PrototypeChain == <<TestClassFields, TestClassPrototype>>

\* typeof obj[name] === 'function'
TypeofFunction(name) == name \in Range(TestClassPrototype)

\* getAllMethodNames(obj): walks the chain and collects, per object, the own
\* property names that are functions on obj, the constructor excepted.
RECURSIVE GetAllMethodNames(_)
GetAllMethodNames(chain) ==
    IF chain = <<>> THEN <<>>
    ELSE SelectSeq(Head(chain),
                   LAMBDA name : TypeofFunction(name) /\ name # "constructor")
         \o GetAllMethodNames(Tail(chain))

\* TraceClassOptions: absent, or an object whose skipIfNoTelemetry is absent,
\* true or false, with excludeMethods and spanNamePrefix ('' when absent).
ClassOptionsOf(skip, exclude, prefix) ==
    [defined |-> TRUE, skipIfNoTelemetry |-> skip,
     excludeMethods |-> exclude, spanNamePrefix |-> prefix]
NoClassOptions ==
    [defined |-> FALSE, skipIfNoTelemetry |-> "absent",
     excludeMethods |-> <<>>, spanNamePrefix |-> ""]

ClassOptions ==
    { NoClassOptions,
      ClassOptionsOf("absent", <<"setValue">>, "TestClass"),
      ClassOptionsOf("true", <<>>, ""),
      ClassOptionsOf("false", <<>>, ""),
      ClassOptionsOf("false", <<"setValue">>, "TestClass") }

\* The options of the traceClass calls whose proxies are then used.
ProxyOptions ==
    { ClassOptionsOf("false", <<>>, ""),
      ClassOptionsOf("false", <<"setValue">>, "TestClass") }

\* A traceClass whose skip flag defaults to false.
SkipIfNoTelemetryDefaultsFalse(options) ==
    options.defined /\ options.skipIfNoTelemetry = "true"

\* const { skipIfNoTelemetry = true } = options || {}
SkipIfNoTelemetry(options) ==
    IF options.defined /\ options.skipIfNoTelemetry # "absent"
    THEN options.skipIfNoTelemetry = "true"
    ELSE TRUE

\* traceClass(instance, options), with what trace.getActiveSpan() answers:
\* the instance itself, or a new Proxy of it that closes over the method
\* names and the options.
TraceClass(o, options, activeSpan) ==
    /\ Len(traced) < MaxTraced
    /\ traced' = Append(traced,
           [instance |-> o, options |-> options, activeSpan |-> activeSpan,
            result |-> IF SkipIfNoTelemetry(options) /\ ~activeSpan
                       THEN [kind |-> "instance", id |-> o]
                       ELSE [kind |-> "proxy", id |-> Len(traced) + 1],
            methodNames |-> GetAllMethodNames(PrototypeChain)])
    /\ UNCHANGED <<objects, pcalls>>
    /\ UNCHANGED <<traceVars, loadVars, cacheVars, facadeVars, noopVars,
                   wrapVars, otelVars, ctxwVars>>

\* A get trap that wraps excluded methods too.
ProxyWrapsIgnoringExclude(t, prop) ==
    TypeofFunction(prop) /\ prop \in Range(t.methodNames)

\* The get trap's test: the property is a function, one of the method names,
\* and not excluded.
ProxyWraps(t, prop) ==
    /\ TypeofFunction(prop)
    /\ prop \in Range(t.methodNames)
    /\ prop \notin Range(t.options.excludeMethods)

\* spanName: spanNamePrefix ? `${spanNamePrefix}.${prop}` : prop
ProxySpanName(options, prop) ==
    IF options.spanNamePrefix # "" THEN options.spanNamePrefix \o "." \o prop
    ELSE prop

\* The arguments user code passes to a method of the class.
ArgsOf(prop) ==
    IF prop = "setValue" THEN {PlainValue("100", TRUE), PlainValue("0", FALSE)}
    ELSE {Undefined}

\* value.apply(proxy, args): what the method of the class does. Reads and
\* writes of this.value go through the proxy to the instance. The result has
\* the instance's fields after the call.
MethodBody(prop, object, arg, p) ==
    IF prop = "getValue"
    THEN [kind |-> "returned", result |-> object.value, object |-> object]
    ELSE IF prop = "setValue"
    THEN [kind |-> "returned", result |-> Undefined,
          object |-> [object EXCEPT !.value = arg]]
    ELSE IF prop = "boom"
    THEN [kind |-> "threw", result |-> PlainValue("Error(x)", TRUE), object |-> object]
    ELSE [kind |-> "returned", result |-> PromiseValue(p), object |-> object]

\* proxy.prop(arg): the get trap hands out the method itself or a new wrapper
\* of it, which is then called with the proxy as this.
ProxyCall(t, prop, arg) ==
    /\ Len(pcalls) < MaxProxyCalls
    /\ traced[t].result.kind = "proxy"
    /\ LET o       == traced[t].instance
           wrapped == ProxyWraps(traced[t], prop)
           sid     == Len(spans) + 1
           span    == NewSpan(ProxySpanName(traced[t].options, prop))
           p       == Len(tpromises) + 1
           applied == MethodBody(prop, objects[o], arg, p)
           made    == IF prop = "slow" THEN <<MethodPromise>> ELSE <<>>
           chained == wrapped /\ applied.kind = "returned" /\ IsThenable(applied.result)
           r       == IF ~wrapped
                      THEN [span |-> span,
                            outcome |-> [kind |-> applied.kind, result |-> applied.result]]
                      ELSE IF applied.kind = "threw" THEN OnCatch(span, applied.result)
                      ELSE IF chained
                      THEN [span |-> span,
                            outcome |-> [kind |-> "returned",
                                         result |-> PromiseValue(p + 1)]]
                      ELSE OnSyncReturn(span, applied.result)
       IN /\ spans' = IF wrapped THEN Append(spans, r.span) ELSE spans
          /\ tpromises' = tpromises \o made \o
                (IF chained THEN <<DerivedPromise(applied.result.pid, sid)>> ELSE <<>>)
          /\ objects' = [objects EXCEPT ![o] = applied.object]
          /\ pcalls' = Append(pcalls,
                [traced |-> t, prop |-> prop, arg |-> arg, wrapped |-> wrapped,
                 span |-> IF wrapped THEN sid ELSE 0,
                 outcome |-> r.outcome,
                 promise |-> IF prop = "slow" THEN p ELSE 0,
                 before |-> objects[o], after |-> applied.object,
                 endedAtReturn |-> IF wrapped THEN r.span.ended ELSE 0])
    /\ UNCHANGED <<wrappers, calls, tjobs, traced>>
    /\ UNCHANGED <<loadVars, cacheVars, facadeVars, noopVars,
                   wrapVars, otelVars, ctxwVars>>

\* ============================================= users of a telemetry object
\* A reference to an object or function of user code, or to what a telemetry
\* made of it (a proxy of the instance, a wrapper of the function).
Ref(kind, id) == [kind |-> kind, id |-> id]
GivenInstances == {Ref("instance", "obj1"), Ref("instance", "obj2")}
GivenFunctions == {Ref("function", "add"), Ref("function", "boom")}

\* The options user code passes to traceClass and traceMethod.
WrapOptions(op) ==
    IF op = "traceClass" THEN {NoClassOptions, ClassOptionsOf("false", <<>>, "")}
    ELSE {NoOption, "op"}
WrapGivens(op) == IF op = "traceClass" THEN GivenInstances ELSE GivenFunctions

\* NoOpTelemetry.traceClass(instance, _options): return instance
NoOpTraceClass(inst, options) == inst

\* A no-op telemetry that hands out a wrapper of the function.
NoOpTraceMethodWraps(method, options) == Ref("wrapper", method.id)

\* NoOpTelemetry.traceMethod(method, _options): return method
NoOpTraceMethod(method, options) == method

\* telemetry.traceClass / telemetry.traceMethod for the telemetry behind the
\* call: the no-op one, or the adapter (a wrapper for traceMethod; the
\* instance or a proxy of it for traceClass, no span being active).
TelemetryWrap(telemetry, op, given, options) ==
    IF telemetry.impl = "noop"
    THEN IF op = "traceClass" THEN NoOpTraceClass(given, options)
         ELSE NoOpTraceMethod(given, options)
    ELSE IF op = "traceMethod" THEN Ref("wrapper", given.id)
    ELSE IF SkipIfNoTelemetry(options) THEN given
    ELSE Ref("proxy", given.id)

\* User code calls traceClass or traceMethod on a NoOpTelemetry it holds.
NoOpWrap(op, given, options) ==
    /\ Len(nwraps) < MaxNoOpWraps
    /\ nwraps' = Append(nwraps,
           [via |-> "NoOpTelemetry", op |-> op, given |-> given,
            servedBy |-> NoOpTelemetry.impl,
            result |-> TelemetryWrap(NoOpTelemetry, op, given, options)])
    /\ UNCHANGED <<heldTracer, tracerUses, statics>>
    /\ UNCHANGED <<traceVars, loadVars, cacheVars, facadeVars, noopVars, classVars,
                   otelVars, ctxwVars>>

\* User code calls traceClass or traceMethod of the facade:
\* return this._telemetry.traceClass(instance, options)
FacadeWrap(op, given, options) ==
    /\ Len(nwraps) < MaxNoOpWraps
    /\ instance # 0
    /\ nwraps' = Append(nwraps,
           [via |-> "Telemetry", op |-> op, given |-> given,
            servedBy |-> ForwardTarget.impl,
            result |-> TelemetryWrap(ForwardTarget, op, given, options)])
    /\ UNCHANGED <<heldTracer, tracerUses, statics>>
    /\ UNCHANGED <<traceVars, loadVars, cacheVars, facadeVars, noopVars, classVars,
                   otelVars, ctxwVars>>

\* No tracer read yet.
NoTracer == [impl |-> "none", of |-> "nobody"]

\* telemetry.tracer: the tracer a telemetry object made in its constructor
\* (new NoOpTracer() for the no-op one, an OtelTracerAdapter for the adapter).
TracerOf(telemetry) == [impl |-> telemetry.impl, of |-> telemetry.by]

\* The span an OtelTracerAdapter returns.
OtelSpanAdapter == "OtelSpanAdapter"

\* A tracer whose behaviour follows the facade's current backing.
TracerStartSpanFollowsBacking(tracer) ==
    IF backing.impl = "noop" THEN NOOP_SPAN ELSE OtelSpanAdapter

\* tracer.startSpan(name): NoOpTracer returns NoOpTracer.NOOP_SPAN, the
\* adapter a new OtelSpanAdapter.
TracerStartSpan(tracer) ==
    IF tracer.impl = "noop" THEN NOOP_SPAN ELSE OtelSpanAdapter

\* span.isRecording() of a span made by a tracer: false for the no-op span.
SpanIsRecording(span) == span # NOOP_SPAN

\* User code reads facade.tracer for the first time and keeps the reference:
\* get tracer() { return this._telemetry.tracer }
HoldTracer ==
    /\ instance # 0
    /\ heldTracer = NoTracer
    /\ heldTracer' = TracerOf(ForwardTarget)
    /\ UNCHANGED <<nwraps, tracerUses, statics>>
    /\ UNCHANGED <<traceVars, loadVars, cacheVars, facadeVars, noopVars, classVars,
                   otelVars, ctxwVars>>

\* User code starts a span on the tracer it kept and asks the span whether
\* it records.
UseHeldTracer ==
    /\ heldTracer # NoTracer
    /\ Len(tracerUses) < MaxTracerUses
    /\ LET span == TracerStartSpan(heldTracer)
       IN tracerUses' = Append(tracerUses,
              [op |-> "startSpan", tracer |-> heldTracer, backing |-> backing,
               span |-> span, recording |-> SpanIsRecording(span)])
    /\ UNCHANGED <<nwraps, heldTracer, statics>>
    /\ UNCHANGED <<traceVars, loadVars, cacheVars, facadeVars, noopVars, classVars,
                   otelVars, ctxwVars>>

\* User code reads facade.tracer again and starts a span on what it got.
ReadTracer ==
    /\ instance # 0
    /\ Len(tracerUses) < MaxTracerUses
    /\ LET tracer == TracerOf(ForwardTarget)
           span == TracerStartSpan(tracer)
       IN tracerUses' = Append(tracerUses,
              [op |-> "read", tracer |-> tracer, backing |-> backing,
               span |-> span, recording |-> SpanIsRecording(span)])
    /\ UNCHANGED <<nwraps, heldTracer, statics>>
    /\ UNCHANGED <<traceVars, loadVars, cacheVars, facadeVars, noopVars, classVars,
                   otelVars, ctxwVars>>

\* ------------------------------------------ the static helpers of Telemetry
\* The context arguments of setBaggage and withContext.
StaticContexts == {"undefined", "ctx"}

\* The callbacks handed to withContext: one that returns, one that throws.
StaticCallbacks == {"return", "throw"}

\* A getActiveSpan that asks the loaded provider.
StaticGetActiveSpanDelegates ==
    IF backing.impl = "real" THEN OtelSpanAdapter ELSE "undefined"

\* static getActiveSpan(): return undefined
StaticGetActiveSpan == "undefined"

\* static setBaggage(entries, ctx): return ctx || ({} as IContext)
StaticSetBaggage(ctx) == IF ctx = "undefined" THEN "{}" ELSE ctx

\* static withContext(ctx, fn): fn() -- the callback runs once and what it
\* throws leaves withContext.
StaticWithContext(ctx, fn) ==
    [fnRuns |-> 1, outcome |-> IF fn = "throw" THEN "threw" ELSE "returned"]

\* User code calls one of the static helpers. The record keeps the state of
\* the facade at the call.
StaticCall(op, ctx, fn) ==
    /\ Len(statics) < MaxStaticCalls
    /\ statics' = Append(statics,
           [op |-> op, ctx |-> ctx, backing |-> backing,
            loading |-> \E a \in DOMAIN loadAsync : loadAsync[a].pc # "done",
            result |-> CASE op = "getActiveSpan" -> StaticGetActiveSpan
                         [] op = "setBaggage" -> StaticSetBaggage(ctx)
                         [] OTHER -> "undefined",
            fnRuns |-> IF op = "withContext" THEN StaticWithContext(ctx, fn).fnRuns
                       ELSE 0,
            outcome |-> IF op = "withContext" THEN StaticWithContext(ctx, fn).outcome
                        ELSE "returned"])
    /\ UNCHANGED <<nwraps, heldTracer, tracerUses>>
    /\ UNCHANGED <<traceVars, loadVars, cacheVars, facadeVars, noopVars, classVars,
                   otelVars, ctxwVars>>

\* context-wrapper.ts: let activeContext = new NoOpContext()
RootContext == "root"

\* ===================================== OtelTelemetryProvider (otel-adapter)
\* The OtelConfig values init is called with: none, one without serviceName,
\* and two with different service names.
OtelConfigs ==
    { ConfigUndefined,
      ConfigOf(<<>>),
      ConfigOf(<<StrField("serviceName", "test-service")>>),
      ConfigOf(<<StrField("serviceName", "other-service")>>) }

\* The provider instances user code creates with new OtelTelemetryProvider().
OtelProviders == 1..2

\* new OtelTelemetryAdapter(config || {}):
\* this.name = config.serviceName ?? 'default-service'
NewOtelTelemetryAdapter(config) ==
    RealTelemetry(IF ServiceName(config) = "undefined" THEN "default-service"
                  ELSE ServiceName(config))

\* provider.init(config): the adapter is created on the first call of any
\* provider instance and kept in the static field; every call returns the
\* static field.
OtelProviderInit(provider, config) ==
    /\ Len(pinits) < MaxProviderInits
    /\ LET telemetry == IF otelTelemetry = NoTelemetry
                        THEN NewOtelTelemetryAdapter(config)
                        ELSE otelTelemetry
       IN /\ otelTelemetry' = telemetry
          /\ pinits' = Append(pinits,
                 [provider |-> provider, config |-> config, returned |-> telemetry])
    /\ UNCHANGED enums
    /\ UNCHANGED <<traceVars, loadVars, cacheVars, facadeVars, noopVars, classVars,
                   wrapVars, ctxwVars>>

\* A class that extends the test class and overrides getValue.
DerivedClassPrototype == <<"constructor", "getValue">>

\* The prototype chains of the instances traceClass is given: an instance of
\* the test class, of a subclass overriding getValue, and of a subclass that
\* overrides nothing.
ClassChains ==
    { PrototypeChain,
      <<TestClassFields, DerivedClassPrototype, TestClassPrototype>>,
      <<TestClassFields, <<"constructor">>, TestClassPrototype>> }

\* traceClass enumerates the methods of the instance it is given:
\* const methods = this.getAllMethodNames(instance)
EnumerateMethods(chain) ==
    /\ Len(enums) < MaxEnumerations
    /\ enums' = Append(enums, [chain |-> chain, methods |-> GetAllMethodNames(chain)])
    /\ UNCHANGED <<otelTelemetry, pinits>>
    /\ UNCHANGED <<traceVars, loadVars, cacheVars, facadeVars, noopVars, classVars,
                   wrapVars, ctxwVars>>

\* ========================================================= context-wrapper.ts
\* The contexts user code passes to context.with and context.withAsync.
WithContexts == {"ctxA", "ctxB"}

\* What the callback of a with call does in the end.
FnOutcomes ==
    { [kind |-> "returned", value |-> "result"],
      [kind |-> "threw", value |-> "Error(fn)"] }

\* context.active()
ContextActive == activeContext

\* A with that restores the previous context only when fn returns.
WithRestoreOnReturnOnly(frame, outcome) ==
    IF outcome.kind = "threw" THEN activeContext ELSE frame.prev

\* finally { activeContext = prevContext }
WithRestore(frame, outcome) == frame.prev

\* context.with(ctx, fn) up to the call of fn:
\* const prevContext = activeContext; activeContext = ctx; fn() begins
WithEnter(ctx) ==
    /\ Len(wstack) < MaxWithDepth
    /\ Len(wstack) + Len(withs) < MaxWiths
    /\ wstack' = Append(wstack, [ctx |-> ctx, prev |-> activeContext])
    /\ activeContext' = ctx
    /\ UNCHANGED <<moduleActiveSpan, withs, acalls, wjobs, wcalls>>
    /\ UNCHANGED <<traceVars, loadVars, cacheVars, facadeVars, noopVars, classVars,
                   wrapVars, otelVars>>

\* The callback of the innermost with call returns or throws: the finally
\* block runs and with returns fn's value or lets its error through.
WithLeave(outcome) ==
    /\ wstack # <<>>
    /\ LET frame == wstack[Len(wstack)]
       IN /\ activeContext' = WithRestore(frame, outcome)
          /\ withs' = Append(withs,
                 [ctx |-> frame.ctx, depth |-> Len(wstack),
                  before |-> frame.prev, during |-> ContextActive,
                  after |-> activeContext',
                  fn |-> outcome, outcome |-> outcome])
    /\ wstack' = SubSeq(wstack, 1, Len(wstack) - 1)
    /\ UNCHANGED <<moduleActiveSpan, acalls, wjobs, wcalls>>
    /\ UNCHANGED <<traceVars, loadVars, cacheVars, facadeVars, noopVars, classVars,
                   wrapVars, otelVars>>

\* context.withAsync(ctx, fn) up to its await: prevContext is saved, ctx made
\* active, fn called; fn runs to its first suspension point and returns its
\* promise, which withAsync awaits.
WithAsyncCall(ctx) ==
    /\ Len(acalls) < MaxAsyncCalls
    /\ acalls' = Append(acalls,
           [ctx |-> ctx, prev |-> activeContext, fn |-> "suspended",
            resumedUnder |-> "none", pc |-> "awaitFn"])
    /\ activeContext' = ctx
    /\ UNCHANGED <<moduleActiveSpan, wstack, withs, wjobs, wcalls>>
    /\ UNCHANGED <<traceVars, loadVars, cacheVars, facadeVars, noopVars, classVars,
                   wrapVars, otelVars>>

\* What fn of call a was waiting for has settled: fn resumes, reads
\* context.active(), and finishes; its promise settles, which queues the
\* continuation of withAsync.
FnResumes(a) ==
    /\ acalls[a].fn = "suspended"
    /\ acalls' = [acalls EXCEPT ![a].fn = "finished",
                                ![a].resumedUnder = ContextActive]
    /\ wjobs' = Append(wjobs, a)
    /\ UNCHANGED <<activeContext, moduleActiveSpan, wstack, withs, wcalls>>
    /\ UNCHANGED <<traceVars, loadVars, cacheVars, facadeVars, noopVars, classVars,
                   wrapVars, otelVars>>

\* The microtask that resumes withAsync after `await fn()`:
\* finally { activeContext = prevContext }
RunWithAsyncContinuation ==
    /\ wjobs # <<>>
    /\ LET a == Head(wjobs)
       IN /\ activeContext' = acalls[a].prev
          /\ acalls' = [acalls EXCEPT ![a].pc = "done"]
    /\ wjobs' = Tail(wjobs)
    /\ UNCHANGED <<moduleActiveSpan, wstack, withs, wcalls>>
    /\ UNCHANGED <<traceVars, loadVars, cacheVars, facadeVars, noopVars, classVars,
                   wrapVars, otelVars>>

\* The spans user code passes to trace.setSpan.
WrapperSpans == {"spanA", "spanB"}

\* trace.setSpan(ctx, span): activeSpan = span
WrapperSetSpan(span) ==
    /\ moduleActiveSpan # span
    /\ moduleActiveSpan' = span
    /\ UNCHANGED <<activeContext, wstack, withs, acalls, wjobs, wcalls>>
    /\ UNCHANGED <<traceVars, loadVars, cacheVars, facadeVars, noopVars, classVars,
                   wrapVars, otelVars>>

\* trace.getActiveSpan()
WrapperGetActiveSpan == moduleActiveSpan

\* const span = new NoOpSpan()
WrapperNewSpan == "new NoOpSpan()"

\* trace.getTracer(name).startActiveSpan(...args): the arrow function is
\* (name, fn) => fn(new NoOpSpan()), so fn is the second argument whatever the
\* number of arguments.
WrapperStartActiveSpan(args) == CallValue(args[2], WrapperNewSpan)

\* User code calls startActiveSpan of the tracer trace.getTracer returned.
WrapperTracerCall(args) ==
    /\ Len(wcalls) < MaxWrapperCalls
    /\ UNCHANGED <<activeContext, moduleActiveSpan, wstack, withs, acalls, wjobs>>
    /\ LET r == WrapperStartActiveSpan(args)
       IN wcalls' = Append(wcalls,
              [args |-> args, received |-> r.received, outcome |-> r.outcome,
               activeSpanBefore |-> WrapperGetActiveSpan,
               activeSpanAfter |-> moduleActiveSpan'])
    /\ UNCHANGED <<traceVars, loadVars, cacheVars, facadeVars, noopVars, classVars,
                   wrapVars, otelVars>>

\* ============================================================ specifications
NoOpInit ==
    /\ ctxs = <<>>
    /\ bags = <<>>
    /\ ncalls = <<>>

ClassInit ==
    /\ objects = <<NewTestClass>>
    /\ traced = <<>>
    /\ pcalls = <<>>

WrapInit ==
    /\ nwraps = <<>>
    /\ heldTracer = NoTracer
    /\ tracerUses = <<>>
    /\ statics = <<>>

OtelInit ==
    /\ otelTelemetry = NoTelemetry
    /\ pinits = <<>>
    /\ enums = <<>>

ContextWrapperInit ==
    /\ activeContext = RootContext
    /\ moduleActiveSpan = "undefined"
    /\ wstack = <<>>
    /\ withs = <<>>
    /\ acalls = <<>>
    /\ wjobs = <<>>
    /\ wcalls = <<>>

Init ==
    /\ TraceInit /\ LoadInit /\ CacheInit /\ FacadeInit /\ NoOpInit /\ ClassInit
    /\ WrapInit /\ OtelInit /\ ContextWrapperInit

\* The traced calls of the real adapter.
TraceNext ==
    \/ \E m \in Methods, o \in SpanNameOptions : TraceMethod(m, o)
    \/ \E w \in wrappers : InvokeWrapper(w)
    \/ \E p \in DOMAIN tpromises, v \in SettleValues : MethodPromiseFulfils(p, v)
    \/ \E p \in DOMAIN tpromises, e \in SettleErrors : MethodPromiseRejects(p, e)
    \/ RunTraceReaction

SpecTrace == Init /\ [][TraceNext]_vars

\* The loader: getTelemetry, its cache, and loadTelemetryProvider.
LoaderNext ==
    \/ \E n \in Names, c \in LoaderConfigs : GetTelemetry(n, c)
    \/ ClearTelemetryCache
    \/ \E i \in DOMAIN plds, o \in {"module", "notFound"} : ImportSettles(i, o)
    \/ RunProviderContinuation
    \/ \E t \in BOOLEAN : RunCreateContinuation(t)

SpecLoader == Init /\ [][LoaderNext]_vars

\* The facade: Telemetry.init, its background load, Telemetry.waitForInit.
FacadeNext ==
    \/ \E c \in Configs : TelemetryInit(c)
    \/ WaitForInit
    \/ \E c \in DirectLoadConfigs : LoadTelemetryProviderCall(c)
    \/ \E i \in DOMAIN plds, o \in ImportOutcomes : ImportSettles(i, o)
    \/ RunProviderContinuation
    \/ \E t \in BOOLEAN : RunLoadAsyncContinuation(t)
    \/ RunWaitContinuation

SpecFacade == Init /\ [][FacadeNext]_vars

\* The configurations the users of the facade initialise it with.
FacadeUseConfigs ==
    { ConfigUndefined,
      ConfigOf(<<BoolField("enabled", FALSE)>>),
      ConfigOf(<<BoolField("enabled", TRUE), StrField("serviceName", "svc")>>) }

\* The facade in use: init, get, waitForInit, the forwarded members, with the
\* loader's getTelemetry and clearTelemetryCache running beside it.
FacadeUseNext ==
    \/ \E c \in FacadeUseConfigs : TelemetryInit(c)
    \/ WaitForInit
    \/ TelemetryGet
    \/ \E op \in FacadeOps : FacadeUse(op)
    \/ \E i \in DOMAIN plds, o \in ImportOutcomes : ImportSettles(i, o)
    \/ RunProviderContinuation
    \/ \E t \in BOOLEAN : RunLoadAsyncContinuation(t)
    \/ RunWaitContinuation

SpecFacadeUse == Init /\ [][FacadeUseNext]_vars

\* The configuration of the runs that watch the process-wide flag (a
\* waitForInit made first initialises with none).
FlagConfigs ==
    { ConfigOf(<<BoolField("enabled", TRUE), StrField("serviceName", "svc")>>) }

\* Everything this layer offers that could touch the process-wide flag: the
\* facade's operations and its shutdown, beside getTelemetry and
\* clearTelemetryCache of the loader.
FlagNext ==
    \/ \E c \in FlagConfigs : TelemetryInit(c)
    \/ WaitForInit
    \/ TelemetryGet
    \/ FacadeUse("shutdown")
    \/ GetTelemetry("a", ConfigUndefined)
    \/ ClearTelemetryCache
    \/ \E i \in DOMAIN plds : ImportSettles(i, "module")
    \/ RunProviderContinuation
    \/ \E t \in BOOLEAN : RunCreateContinuation(t)
    \/ \E t \in BOOLEAN : RunLoadAsyncContinuation(t)
    \/ RunWaitContinuation

SpecFlag == Init /\ [][FlagNext]_vars

\* NoOpContext objects in the hands of user code.
ContextNext ==
    \/ CreateContext
    \/ \E c \in DOMAIN ctxs, k \in ContextKeys, v \in ContextValues : SetValue(c, k, v)
    \/ \E c \in DOMAIN ctxs, k \in ContextKeys : DeleteValue(c, k)

SpecContext == Init /\ [][ContextNext]_vars

\* NoOpBaggage objects in the hands of user code.
BaggageNext ==
    \/ CreateBaggage
    \/ \E b \in DOMAIN bags, k \in BaggageKeys, e \in BaggageEntries : SetEntry(b, k, e)
    \/ \E b \in DOMAIN bags, k \in BaggageKeys : RemoveEntry(b, k)
    \/ \E b \in DOMAIN bags, ks \in KeyLists : RemoveEntries(b, ks)
    \/ \E b \in DOMAIN bags : Clear(b)

SpecBaggage == Init /\ [][BaggageNext]_vars

\* The NoOpTracer in the hands of user code.
TracerNext ==
    \E fn \in Callbacks : \E args \in CallShapes(fn) : TracerCall(args)

SpecTracer == Init /\ [][TracerNext]_vars

\* traceClass called on an instance, for each answer of trace.getActiveSpan().
TraceClassNext ==
    \E o \in DOMAIN objects, opts \in ClassOptions, a \in BOOLEAN : TraceClass(o, opts, a)

SpecTraceClass == Init /\ [][TraceClassNext]_vars

\* Proxies made by traceClass in the hands of user code.
ProxyNext ==
    \/ \E o \in DOMAIN objects, opts \in ProxyOptions : TraceClass(o, opts, FALSE)
    \/ \E t \in DOMAIN traced, prop \in Range(TestClassPrototype) \ {"constructor"} :
          \E arg \in ArgsOf(prop) : ProxyCall(t, prop, arg)
    \/ \E p \in DOMAIN tpromises : MethodPromiseFulfils(p, PlainValue("done", TRUE))
    \/ \E p \in DOMAIN tpromises : MethodPromiseRejects(p, PlainValue("Error(late)", TRUE))
    \/ RunTraceReaction

SpecProxy == Init /\ [][ProxyNext]_vars

\* The facade with its background load, as the users below see it.
FacadeLoadNext ==
    \/ \E c \in FlagConfigs : TelemetryInit(c)
    \/ \E i \in DOMAIN plds, o \in {"module", "notFound"} : ImportSettles(i, o)
    \/ RunProviderContinuation
    \/ \E t \in BOOLEAN : RunLoadAsyncContinuation(t)

\* traceClass and traceMethod of a NoOpTelemetry, called on it or through
\* the facade.
NoOpTelemetryNext ==
    \/ \E op \in {"traceClass", "traceMethod"} :
          \E given \in WrapGivens(op), options \in WrapOptions(op) :
              NoOpWrap(op, given, options) \/ FacadeWrap(op, given, options)
    \/ FacadeLoadNext

SpecNoOpTelemetry == Init /\ [][NoOpTelemetryNext]_vars

\* The provider of the optional package and the method enumeration of its
\* adapter.
OtelProviderNext ==
    \/ \E provider \in OtelProviders, config \in OtelConfigs :
          OtelProviderInit(provider, config)
    \/ \E chain \in ClassChains : EnumerateMethods(chain)

SpecOtelProvider == Init /\ [][OtelProviderNext]_vars

\* A tracer read from the facade and kept across the background load.
HeldTracerNext ==
    \/ HoldTracer
    \/ UseHeldTracer
    \/ ReadTracer
    \/ FacadeLoadNext

SpecHeldTracer == Init /\ [][HeldTracerNext]_vars

\* The static helpers, called in every load state of the facade.
StaticsNext ==
    \/ StaticCall("getActiveSpan", "undefined", "return")
    \/ \E ctx \in StaticContexts : StaticCall("setBaggage", ctx, "return")
    \/ \E ctx \in StaticContexts, fn \in StaticCallbacks : StaticCall("withContext", ctx, fn)
    \/ FacadeLoadNext

SpecStatics == Init /\ [][StaticsNext]_vars

\* NoOpContext and NoOpBaggage objects side by side in the hands of user
\* code, MaxMapObjects of them at most.
MapNext ==
    /\ Len(ctxs) + Len(bags) < MaxMapObjects
    /\ (ContextNext \/ BaggageNext)

SpecMap == Init /\ [][MapNext]_vars

\* Synchronous context.with calls, nested in each other's callbacks.
WithNext ==
    \/ \E ctx \in WithContexts : WithEnter(ctx)
    \/ \E outcome \in FnOutcomes : WithLeave(outcome)

SpecWith == Init /\ [][WithNext]_vars

\* context.withAsync calls that overlap on the event loop.
WithAsyncNext ==
    \/ \E ctx \in WithContexts : WithAsyncCall(ctx)
    \/ \E a \in DOMAIN acalls : FnResumes(a)
    \/ RunWithAsyncContinuation

SpecWithAsync == Init /\ [][WithAsyncNext]_vars

\* The tracer of the context wrapper in the hands of user code.
WrapperTracerNext ==
    \/ \E fn \in Callbacks : \E args \in CallShapes(fn) : WrapperTracerCall(args)
    \/ \E span \in WrapperSpans : WrapperSetSpan(span)

SpecWrapperTracer == Init /\ [][WrapperTracerNext]_vars

Next ==
    \/ TraceNext \/ LoaderNext \/ FacadeNext \/ FacadeUseNext \/ FlagNext
    \/ ContextNext \/ BaggageNext \/ TracerNext \/ TraceClassNext \/ ProxyNext
    \/ NoOpTelemetryNext \/ OtelProviderNext \/ HeldTracerNext \/ StaticsNext \/ MapNext
    \/ WithNext \/ WithAsyncNext \/ WrapperTracerNext
Spec == Init /\ [][Next]_vars

\* ==================================================================== claims
\* The span of call c, and for a call of an async function the promise the
\* function returned and the promise the wrapper returned.
SpanOfCall(c) == spans[calls[c].span]
MethodPromiseOf(c) == tpromises[calls[c].promise]
WrapperPromiseOf(c) == tpromises[calls[c].outcome.result.pid]

\* C1: every invocation of a wrapper whose function throws synchronously
\* records exactly that error on the span, sets the status ERROR, ends the
\* span exactly once, and throws the very error the function threw.
C1_SyncThrowRecordedAndRethrown ==
    \A c \in DOMAIN calls :
        calls[c].method.does = "throw" =>
            /\ SpanOfCall(c).exceptions = <<calls[c].method.value>>
            /\ SpanOfCall(c).status = ERROR
            /\ SpanOfCall(c).ended = 1
            /\ calls[c].outcome = [kind |-> "threw", result |-> calls[c].method.value]

\* Two invocations of wrappers of a throwing function have happened.
C1_Witness ==
    \E c1, c2 \in DOMAIN calls :
        c1 # c2 /\ calls[c1].method.does = "throw" /\ calls[c2].method.does = "throw"

\* C2: for a call whose function returned a pending promise the wrapper
\* returns a promise; the span is not ended while the function's promise is
\* pending, nor after its rejection until the rejection handler has run; once
\* it has run the rejection reason is the one recorded exception, the status
\* is ERROR, the span is ended exactly once and the wrapper's promise is
\* rejected with the same reason.
C2_AsyncRejectionDeferred ==
    \A c \in DOMAIN calls :
        calls[c].method.does = "async" =>
            /\ calls[c].outcome.kind = "returned"
            /\ calls[c].outcome.result.tag = "promise"
            /\ WrapperPromiseOf(c).source = calls[c].promise
            /\ MethodPromiseOf(c).state = "pending" =>
                   SpanOfCall(c).ended = 0 /\ WrapperPromiseOf(c).state = "pending"
            /\ MethodPromiseOf(c).state = "rejected" =>
                   IF WrapperPromiseOf(c).state = "pending"
                   THEN /\ SpanOfCall(c).ended = 0
                        /\ SpanOfCall(c).status = UNSET
                        /\ SpanOfCall(c).exceptions = <<>>
                   ELSE /\ SpanOfCall(c).ended = 1
                        /\ SpanOfCall(c).status = ERROR
                        /\ SpanOfCall(c).exceptions = <<MethodPromiseOf(c).value>>
                        /\ WrapperPromiseOf(c).state = "rejected"
                        /\ WrapperPromiseOf(c).value = MethodPromiseOf(c).value

\* A function's promise was rejected and its rejection handler has run, while
\* another traced call is still pending.
C2_Witness ==
    \E c1, c2 \in DOMAIN calls :
        /\ calls[c1].method.does = "async" /\ calls[c2].method.does = "async"
        /\ MethodPromiseOf(c1).state = "rejected"
        /\ WrapperPromiseOf(c1).state = "rejected"
        /\ MethodPromiseOf(c2).state = "pending"

\* C3: every invocation of a wrapper whose function returns a non-thenable
\* value (truthy or falsy) has ended the span exactly once when it returns,
\* leaves the status UNSET, records no exception, and returns that value.
C3_SyncReturnPassesThrough ==
    \A c \in DOMAIN calls :
        calls[c].method.does = "return" =>
            /\ calls[c].endedAtReturn = 1
            /\ SpanOfCall(c).ended = 1
            /\ SpanOfCall(c).status = UNSET
            /\ SpanOfCall(c).exceptions = <<>>
            /\ calls[c].outcome = [kind |-> "returned", result |-> calls[c].method.value]

\* A function returning a truthy value and one returning a falsy value have
\* both been called through their wrappers.
C3_Witness ==
    \E c1, c2 \in DOMAIN calls :
        /\ calls[c1].method.does = "return" /\ calls[c1].method.value.truthy
        /\ calls[c2].method.does = "return" /\ ~calls[c2].method.value.truthy

\* C4: for a call whose function returned a pending promise the span is not
\* ended when the wrapper returns and stays so until the fulfilment handler
\* has run; once it has run the span is ended exactly once with status UNSET
\* and no exception, and the wrapper's promise is fulfilled with the value the
\* function's promise was fulfilled with.
C4_AsyncFulfilmentDeferred ==
    \A c \in DOMAIN calls :
        calls[c].method.does = "async" =>
            /\ calls[c].endedAtReturn = 0
            /\ calls[c].outcome.result.tag = "promise"
            /\ calls[c].outcome.result.pid # calls[c].promise
            /\ WrapperPromiseOf(c).state = "pending" => SpanOfCall(c).ended = 0
            /\ MethodPromiseOf(c).state = "fulfilled"
                   /\ WrapperPromiseOf(c).state # "pending" =>
                   /\ SpanOfCall(c).ended = 1
                   /\ SpanOfCall(c).status = UNSET
                   /\ SpanOfCall(c).exceptions = <<>>
                   /\ WrapperPromiseOf(c).state = "fulfilled"
                   /\ WrapperPromiseOf(c).value = MethodPromiseOf(c).value

\* A function's promise was fulfilled and its fulfilment handler has run.
C4_Witness ==
    \E c \in DOMAIN calls :
        /\ calls[c].method.does = "async"
        /\ MethodPromiseOf(c).state = "fulfilled"
        /\ WrapperPromiseOf(c).state = "fulfilled"
        /\ SpanOfCall(c).ended = 1

\* The getTelemetry calls g1 < g2 were made with the same name and the same
\* configuration, with no clearTelemetryCache in between.
SameKeyGets(g1, g2) ==
    /\ g1 < g2
    /\ gets[g1].name = gets[g2].name
    /\ gets[g1].config = gets[g2].config
    /\ gets[g1].epoch = gets[g2].epoch

\* The createTelemetry activations started for the key of call g since the
\* last clearTelemetryCache before it.
LoadsFor(g) ==
    {l \in DOMAIN loads : /\ loads[l].name = gets[g].name
                          /\ loads[l].config = gets[g].config
                          /\ loads[l].epoch = gets[g].epoch}

DisabledOrAbsent(config) ==
    \/ ~config.defined
    \/ \A i \in DOMAIN config.fields :
          config.fields[i].key = "enabled" => ~config.fields[i].b

\* C6: a loadTelemetryProvider call with a disabled or absent configuration,
\* made by user code or by the facade's background load, never starts the
\* import: from its first state on it is settled with the no-op provider,
\* and the facade's load passes its own configuration to the loader.
C6_DisabledNeverResolvesDependency ==
    /\ \A i \in DOMAIN plds :
          DisabledOrAbsent(plds[i].config) =>
              /\ plds[i].import = "none"
              /\ plds[i].state = "fulfilled"
              /\ plds[i].provider = "noop"
    /\ \A i \in DOMAIN plds :
          plds[i].caller = "loadAsync" =>
              plds[i].config = loadAsync[plds[i].owner].config

\* The facade was initialised with a configuration that has no enabled: true,
\* its background load has completed, and user code has called
\* loadTelemetryProvider with no configuration.
C6_Witness ==
    /\ \E a \in DOMAIN loadAsync :
          /\ loadAsync[a].config.defined
          /\ DisabledOrAbsent(loadAsync[a].config)
          /\ loadAsync[a].pc = "done"
    /\ \E i \in DOMAIN plds : plds[i].caller = "user" /\ ~plds[i].config.defined

\* The number of warnings console.warn has printed for call i of
\* loadTelemetryProvider that name the package and its install command.
NotInstalledWarnings(i) ==
    Cardinality({w \in DOMAIN warnings :
        /\ warnings[w].by = "loadTelemetryProvider"
        /\ warnings[w].id = i
        /\ warnings[w].text = "Telemetry enabled but @mastra/telemetry not installed. "
                              \o "Install it with: npm install @mastra/telemetry"})

\* C7: the promise of loadTelemetryProvider is never rejected; when the
\* import failed (package missing, or MastraTelemetry not constructible) the
\* call settles with the no-op provider and has printed the not-installed
\* warning exactly once; a call whose import did not fail has printed none.
C7_FailedImportFallsBackWithOneWarning ==
    \A i \in DOMAIN plds :
        /\ plds[i].state # "rejected"
        /\ plds[i].import \in {"notFound", "badModule"} /\ plds[i].state # "pending" =>
               /\ plds[i].state = "fulfilled"
               /\ plds[i].provider = "noop"
               /\ NotInstalledWarnings(i) = 1
        /\ plds[i].import \in {"none", "pending", "module"} \/ plds[i].state = "pending" =>
               NotInstalledWarnings(i) = 0

\* An enabled load whose import was rejected has settled, and so has one
\* whose module could not be constructed.
C7_Witness ==
    \E i, j \in DOMAIN plds :
        /\ plds[i].import = "notFound" /\ plds[i].state = "fulfilled"
        /\ plds[j].import = "badModule" /\ plds[j].state = "fulfilled"

\* C8: every Telemetry.init call, made by user code or by waitForInit,
\* returns the one facade object, and at most one loadAsync is ever started.
C8_InitIdempotent ==
    /\ \A i \in DOMAIN inits : inits[i].returned = 1
    /\ facades <= 1
    /\ instance \in {0, 1}
    /\ Len(loadAsync) <= 1

\* init was called with the facade already created, after a waitForInit.
C8_Witness ==
    /\ \E i, j \in DOMAIN inits : i < j /\ inits[i].created /\ ~inits[j].created
    /\ \E w \in DOMAIN waits : waits[w].pc = "resolved"
    /\ Len(loadAsync) = 1

\* C9 (as claimed): whenever a waitForInit promise has resolved, it resolved
\* to the singleton and no loadAsync started for the facade is still pending.
C9_WaitForInitResolvesAfterLoad ==
    \A w \in DOMAIN waits :
        waits[w].pc = "resolved" =>
            /\ instance # 0
            /\ waits[w].result = instance
            /\ \A a \in DOMAIN loadAsync : loadAsync[a].pc = "done"

\* C10: an init call that creates the facade returns it backed by the
\* NoOpTelemetry it made (name 'noop') with the background load still
\* pending; the backing stays that one while no load has completed; and the
\* backing changes only in the step that creates the facade or in the step
\* that completes a pending loadAsync.
C10_FirstInitReturnsNoOpBacked ==
    /\ [](\A i \in DOMAIN inits :
             inits[i].created =>
                 /\ inits[i].backing = [impl |-> "noop", name |-> "noop", by |-> "init"]
                 /\ inits[i].loadPending)
    /\ []((instance # 0 /\ \A a \in DOMAIN loadAsync : loadAsync[a].pc # "done") =>
             backing = [impl |-> "noop", name |-> "noop", by |-> "init"])
    /\ [][backing' # backing =>
             \/ instance = 0 /\ instance' # 0
             \/ \E a \in DOMAIN loadAsync :
                   loadAsync[a].pc = "awaitProvider" /\ loadAsync'[a].pc = "done"]_vars

\* The first init has returned the no-op backed facade and the import its
\* background load started is still pending, a second init having been made.
C10_Witness ==
    /\ Len(inits) >= 2
    /\ inits[1].created
    /\ backing = InitialBacking
    /\ \E i \in DOMAIN plds : plds[i].caller = "loadAsync" /\ plds[i].import = "pending"

\* The telemetry the provider of background load a returns from init, as the
\* loader's outcome and the load's own configuration determine it.
ProviderTelemetryOf(a) ==
    IF plds[loadAsync[a].pld].provider = "real"
    THEN [impl |-> "real", name |-> ServiceName(loadAsync[a].config), by |-> "provider"]
    ELSE [impl |-> "noop", name |-> "noop", by |-> "provider"]

\* C11: every init, get and waitForInit hands out the one facade object, whose
\* identity never changes once created; a background load that completed with
\* a provider has put that provider's telemetry behind the facade, where it
\* stays; and every member used through the facade after that swap is served
\* by that telemetry.
C11_SwapInPlaceAndForwarded ==
    /\ [](/\ \A i \in DOMAIN inits : inits[i].returned = 1
          /\ \A w \in DOMAIN waits : waits[w].pc = "resolved" => waits[w].result = 1
          /\ \A g \in DOMAIN tgets : tgets[g].outcome = "returned" => tgets[g].result = 1
          /\ lastCall.op # "none" => lastCall.facade = 1)
    /\ [][instance # 0 => instance' = instance]_vars
    /\ [](\A a \in DOMAIN loadAsync :
             loadAsync[a].outcome = "upgraded" => backing = ProviderTelemetryOf(a))
    /\ [](lastCall.op # "none" /\ lastCall.swappedAtCall =>
             \E a \in DOMAIN loadAsync :
                 /\ loadAsync[a].outcome = "upgraded"
                 /\ lastCall.handledBy = ProviderTelemetryOf(a))

\* A member of the facade was used after the background load had replaced the
\* no-op backing by the telemetry of the real provider.
C11_Witness ==
    /\ lastCall.op = "name"
    /\ lastCall.swappedAtCall
    /\ lastCall.handledBy.impl = "real"
    /\ inits # <<>> /\ inits[1].backing.impl = "noop"

\* C12 (as claimed): whenever hasActiveTelemetry() is true, a background load
\* has completed with the real provider for an enabled configuration and the
\* facade is backed by that provider's telemetry.
C12_FlagImpliesRealProvider ==
    HasActiveTelemetry =>
        /\ \E a \in DOMAIN loadAsync :
              /\ loadAsync[a].outcome = "upgraded"
              /\ plds[loadAsync[a].pld].provider = "real"
              /\ ~DisabledOrAbsent(loadAsync[a].config)
        /\ backing.impl = "real"

\* C13: no step of init, get, waitForInit, a forwarded member (shutdown
\* included), the background load, getTelemetry or clearTelemetryCache takes
\* hasActiveTelemetry() from true back to false.
C13_ActiveFlagMonotonic ==
    [][activeFlag => activeFlag']_vars

\* With the flag raised, shutdown was called through the facade after a
\* second init and a get.
C13_Witness ==
    /\ HasActiveTelemetry
    /\ lastCall.op = "shutdown"
    /\ Len(inits) >= 2
    /\ tgets # <<>>
    /\ gets # <<>>
    /\ epoch >= 1

\* C14: a Telemetry.get call throws the not-initialized error exactly when no
\* init (made by user code or by waitForInit) had created the singleton
\* before it, and returns the singleton otherwise; every init call returns a
\* facade.
C14_GetThrowsIffUninitialised ==
    /\ \A g \in DOMAIN tgets :
          IF tgets[g].createdAtCall
          THEN tgets[g].outcome = "returned" /\ tgets[g].result = 1
          ELSE /\ tgets[g].outcome = "threw"
               /\ tgets[g].error = "Telemetry not initialized. Call Telemetry.init() first."
    /\ \A i \in DOMAIN inits : inits[i].returned # 0
    /\ (\E i \in DOMAIN inits : inits[i].created) <=> instance # 0

\* get threw before the singleton existed and returned it after a waitForInit
\* had created it.
C14_Witness ==
    /\ Len(tgets) = 2
    /\ tgets[1].outcome = "threw"
    /\ tgets[2].outcome = "returned"
    /\ waits # <<>> /\ waits[1].pc = "resolved"
    /\ Len(inits) = 1

\* C17: of the getTelemetry calls made with one name and configuration between
\* two clearTelemetryCache calls, exactly the first starts a createTelemetry
\* (so also the first one after a clear), for that very key; every later one
\* returns the promise of the first (pending, fulfilled or rejected) and
\* starts nothing.
C17_CacheReusedUntilCleared ==
    /\ \A g1, g2 \in DOMAIN gets :
          SameKeyGets(g1, g2) =>
              /\ gets[g2].promise = gets[g1].promise
              /\ ~gets[g2].started
              /\ Cardinality(LoadsFor(g1)) = 1
    /\ \A g \in DOMAIN gets :
          /\ gets[g].started <=> ~\E g0 \in DOMAIN gets : SameKeyGets(g0, g)
          /\ loads[gets[g].promise].name = gets[g].name
          /\ loads[gets[g].promise].config = gets[g].config
          /\ loads[gets[g].promise].epoch = gets[g].epoch

\* A key whose load had failed was asked for again, after a
\* clearTelemetryCache had been made earlier, and the failed entry was returned.
C17_Witness ==
    /\ epoch = 1
    /\ \E g1, g2 \in DOMAIN gets :
          /\ SameKeyGets(g1, g2)
          /\ gets[g1].epoch = 1
          /\ gets[g2].settledBefore
          /\ loads[gets[g2].promise].state = "rejected"

\* C15: no step changes what getValue answers on a context that exists, for
\* any key; a setValue or deleteValue adds exactly one context object, distinct
\* from its source, and leaves every existing object as it was.
C15_ContextCopyOnWrite ==
    [][/\ \A c \in DOMAIN ctxs :
            /\ c \in DOMAIN ctxs'
            /\ \A k \in ContextKeys :
                  ContextGetValue(ctxs', c, k) = ContextGetValue(ctxs, c, k)
       /\ ctxs' # ctxs =>
            /\ Len(ctxs') = Len(ctxs) + 1
            /\ ctxs'[Len(ctxs')].made.from # Len(ctxs')]_vars

\* A context holding a value under a key still answers it after a context
\* derived from it was given another value for that key and a second derived
\* context had the key deleted.
C15_Witness ==
    \E c, d1, d2 \in DOMAIN ctxs :
        /\ ContextGetValue(ctxs, c, "k1") = "v1"
        /\ ctxs[d1].made = MadeBy("setValue", c, "k1", "v2")
        /\ ContextGetValue(ctxs, d1, "k1") = "v2"
        /\ ctxs[d2].made = MadeBy("deleteValue", c, "k1", "")
        /\ ContextGetValue(ctxs, d2, "k1") = "undefined"

\* C16: no step changes what getEntry and getAllEntries answer on a baggage
\* that exists; setEntry, removeEntry, removeEntries and clear each add exactly
\* one baggage object, distinct from its source.
C16_BaggageCopyOnWrite ==
    [][/\ \A b \in DOMAIN bags :
            /\ b \in DOMAIN bags'
            /\ BaggageGetAllEntries(bags', b) = BaggageGetAllEntries(bags, b)
            /\ \A k \in BaggageKeys :
                  BaggageGetEntry(bags', b, k) = BaggageGetEntry(bags, b, k)
       /\ bags' # bags =>
            /\ Len(bags') = Len(bags) + 1
            /\ bags'[Len(bags')].made.from # Len(bags')]_vars

\* A baggage holding an entry still holds it after another entry was set
\* under its key in a derived baggage, which was then cleared.
C16_Witness ==
    \E b, d1, d2 \in DOMAIN bags :
        /\ BaggageGetEntry(bags, b, "k1") = "e1"
        /\ bags[d1].made = MadeBy("setEntry", b, "k1", "e2")
        /\ BaggageGetEntry(bags, d1, "k1") = "e2"
        /\ bags[d2].made = MadeBy("clear", d1, "", "")
        /\ BaggageGetAllEntries(bags, d2) = <<>>

\* C20: every startActiveSpan call of the no-op tracer, in each of its three
\* call shapes, has run the callback exactly once with the no-op span by the
\* time it returns, and hands the caller what the callback returned (also a
\* falsy value or a promise, untouched) or throws what the callback threw.
C20_NoOpStartActiveSpanRunsCallback ==
    \A n \in DOMAIN ncalls :
        LET args == ncalls[n].args
            fn   == CHOOSE a \in Range(args) : a.tag = "function"
        IN /\ Len(args) \in {2, 3, 4}
           /\ ncalls[n].received = <<"NoOpTracer.NOOP_SPAN">>
           /\ ncalls[n].outcome.result = fn.value
           /\ ncalls[n].outcome.kind = IF fn.does = "throw" THEN "threw" ELSE "returned"

\* The four-argument shape was called with a throwing callback and the
\* three-argument shape with a callback returning undefined.
C20_Witness ==
    \E n1, n2 \in DOMAIN ncalls :
        /\ Len(ncalls[n1].args) = 4 /\ ncalls[n1].outcome.kind = "threw"
        /\ Len(ncalls[n2].args) = 3 /\ ncalls[n2].outcome.kind = "returned"
        /\ ncalls[n2].outcome.result = Undefined

UnwrappedOutcome(c) ==
    IF pcalls[c].prop = "getValue"
    THEN [kind |-> "returned", result |-> pcalls[c].before.value]
    ELSE IF pcalls[c].prop = "setValue"
    THEN [kind |-> "returned", result |-> Undefined]
    ELSE [kind |-> "threw", result |-> PlainValue("Error(x)", TRUE)]
UnwrappedAfter(c) ==
    IF pcalls[c].prop = "setValue" THEN [value |-> pcalls[c].arg]
    ELSE pcalls[c].before

\* The span name the claim gives to a call through a proxy.
ClaimedSpanName(c) ==
    LET prefix == traced[pcalls[c].traced].options.spanNamePrefix
    IN IF prefix = "" THEN pcalls[c].prop ELSE prefix \o "." \o pcalls[c].prop

\* C19: a call through a proxy of an excluded method starts no span and has
\* the outcome of the method itself; a call of any other method of the class
\* has a span of its own, named by prefix and method, ended exactly once (at
\* return for a synchronous method, when the promise has settled and its
\* handler has run for an async one); the spans started are exactly those of
\* the non-excluded calls; and the instance's fields after the call and the
\* value returned or error thrown are those of the unwrapped method (for an
\* async method, a promise settling as the method's promise does).
C19_ProxyTracesAllButExcluded ==
    /\ Len(spans) = Cardinality({c \in DOMAIN pcalls : pcalls[c].span # 0})
    /\ \A c, d \in DOMAIN pcalls :
          c # d /\ pcalls[c].span # 0 => pcalls[c].span # pcalls[d].span
    /\ \A c \in DOMAIN pcalls :
          LET excluded == pcalls[c].prop \in
                              Range(traced[pcalls[c].traced].options.excludeMethods)
          IN /\ pcalls[c].after = UnwrappedAfter(c)
             /\ excluded =>
                   /\ pcalls[c].span = 0
                   /\ pcalls[c].prop # "slow" => pcalls[c].outcome = UnwrappedOutcome(c)
                   /\ pcalls[c].prop = "slow" =>
                         pcalls[c].outcome.result = PromiseValue(pcalls[c].promise)
             /\ ~excluded =>
                   /\ pcalls[c].span # 0
                   /\ spans[pcalls[c].span].name = ClaimedSpanName(c)
                   /\ spans[pcalls[c].span].ended <= 1
                   /\ pcalls[c].prop # "slow" =>
                         /\ pcalls[c].endedAtReturn = 1
                         /\ spans[pcalls[c].span].ended = 1
                         /\ pcalls[c].outcome = UnwrappedOutcome(c)
                   /\ pcalls[c].prop = "slow" =>
                         LET own     == tpromises[pcalls[c].promise]
                             derived == tpromises[pcalls[c].outcome.result.pid]
                         IN /\ pcalls[c].outcome.kind = "returned"
                            /\ derived.source = pcalls[c].promise
                            /\ derived.state = "pending" =>
                                  spans[pcalls[c].span].ended = 0
                            /\ derived.state # "pending" =>
                                  /\ spans[pcalls[c].span].ended = 1
                                  /\ derived.state = own.state
                                  /\ derived.value = own.value

\* Through a proxy made with prefix 'TestClass' and setValue excluded,
\* setValue(100) was called, and then getValue, which returned 100 under a
\* span named 'TestClass.getValue'.
C19_Witness ==
    \E c, d \in DOMAIN pcalls :
        /\ c < d
        /\ pcalls[c].traced = pcalls[d].traced
        /\ pcalls[c].prop = "setValue" /\ pcalls[c].span = 0
        /\ pcalls[c].arg = PlainValue("100", TRUE)
        /\ pcalls[d].prop = "getValue" /\ pcalls[d].span # 0
        /\ pcalls[d].outcome.result = PlainValue("100", TRUE)
        /\ spans[pcalls[d].span].name = "TestClass.getValue"
        /\ spans[pcalls[d].span].ended = 1

\* C21: every traceClass and traceMethod call served by a no-op telemetry,
\* made on a NoOpTelemetry or through the facade while its backing is the
\* no-op implementation, returns the very instance or function it was given,
\* whatever the options.
C21_NoOpTelemetryAddsNoWrapping ==
    \A n \in DOMAIN nwraps :
        (nwraps[n].via = "NoOpTelemetry" \/ nwraps[n].servedBy = "noop") =>
            /\ nwraps[n].result = nwraps[n].given
            /\ nwraps[n].result.kind = IF nwraps[n].op = "traceClass"
                                       THEN "instance" ELSE "function"

\* traceMethod was called through the facade before its load had completed,
\* and traceClass on a NoOpTelemetry.
C21_Witness ==
    \E n, m \in DOMAIN nwraps :
        /\ nwraps[n].via = "Telemetry" /\ nwraps[n].op = "traceMethod"
        /\ nwraps[n].servedBy = "noop"
        /\ \E a \in DOMAIN loadAsync : loadAsync[a].pc = "awaitProvider"
        /\ nwraps[m].via = "NoOpTelemetry" /\ nwraps[m].op = "traceClass"

\* config.serviceName ?? 'default-service', as the claim words it
ClaimedName(config) ==
    IF ServiceName(config) = "undefined" THEN "default-service" ELSE ServiceName(config)

\* C22: every OtelTelemetryProvider.init(config) call, on every provider
\* instance and also after an earlier init with another serviceName, returns
\* a telemetry whose name is config.serviceName, or 'default-service' when
\* the serviceName is absent.
C22_InitNameIsServiceName ==
    \A n \in DOMAIN pinits : pinits[n].returned.name = ClaimedName(pinits[n].config)

\* The number of times a name is in a list.
Count(list, name) == Cardinality({i \in DOMAIN list : list[i] = name})

\* The names found on an instance's chain that are functions on the instance.
CallableNames(chain) ==
    {name \in UNION {Range(chain[i]) : i \in DOMAIN chain} : TypeofFunction(name)}

\* C25: getAllMethodNames returns a list in which every callable property
\* name of the instance, own or inherited, is exactly once, also when a
\* method is overridden at several levels of the chain, and in which
\* 'constructor' is not.
C25_EachMethodNameOnce ==
    \A n \in DOMAIN enums :
        /\ \A name \in CallableNames(enums[n].chain) \ {"constructor"} :
               Count(enums[n].methods, name) = 1
        /\ Count(enums[n].methods, "constructor") = 0
        /\ Range(enums[n].methods) \subseteq CallableNames(enums[n].chain)

\* C23: a tracer read from the facade before the swap is not changed by the
\* swap -- the spans it starts after the swap are still the no-op span, which
\* does not record -- while facade.tracer read after the swap is the tracer of
\* the new backing.
C23_HeldTracerKeepsOldBehaviour ==
    /\ heldTracer.of = "init" => heldTracer.impl = "noop"
    /\ \A n \in DOMAIN tracerUses :
          LET u == tracerUses[n]
          IN /\ (u.op = "startSpan" /\ u.tracer.of = "init") =>
                    u.span = NOOP_SPAN /\ ~u.recording
             /\ u.op = "read" =>
                    /\ u.tracer = [impl |-> u.backing.impl, of |-> u.backing.by]
                    /\ (u.backing.impl = "real" => u.span = OtelSpanAdapter)

\* The tracer kept since before the swap was used after the swap to a real
\* provider's telemetry, and facade.tracer was read again after it.
C23_Witness ==
    \E n, m \in DOMAIN tracerUses :
        /\ tracerUses[n].op = "startSpan" /\ tracerUses[n].tracer.of = "init"
        /\ tracerUses[n].backing.impl = "real" /\ tracerUses[n].span = NOOP_SPAN
        /\ tracerUses[m].op = "read" /\ tracerUses[m].tracer.impl = "real"

\* C26: in every load state of the facade getActiveSpan() returns undefined,
\* setBaggage(entries, ctx) returns ctx (an empty object when ctx is absent),
\* withContext(ctx, fn) runs fn exactly once, and none of the three changes
\* the facade, the process-wide flag or the active context.
C26_StaticHelpersInert ==
    [][statics' # statics =>
          LET call == statics'[Len(statics')]
          IN /\ call.op = "getActiveSpan" => call.result = "undefined"
             /\ call.op = "setBaggage" =>
                    call.result = IF call.ctx = "undefined" THEN "{}" ELSE call.ctx
             /\ call.op = "withContext" => call.fnRuns = 1
             /\ UNCHANGED <<facadeVars, loadVars, activeContext, moduleActiveSpan>>]_vars

\* The three helpers were called: setBaggage before init, withContext while
\* the load was pending, and getActiveSpan after a real provider had been
\* loaded.
C26_Witness ==
    /\ \E n \in DOMAIN statics :
          /\ statics[n].op = "getActiveSpan" /\ statics[n].backing.impl = "real"
          /\ ~statics[n].loading
    /\ \E n \in DOMAIN statics :
          statics[n].op = "withContext" /\ statics[n].loading
    /\ \E n \in DOMAIN statics :
          statics[n].op = "setBaggage" /\ statics[n].backing = NoBacking

\* The reference finite map after the operations that made object i of the
\* heap, as a set of <<key, value>> pairs.
RECURSIVE ReferenceMap(_, _)
ReferenceMap(heap, i) ==
    LET made == heap[i].made
    IN IF made.op \in {"new", "clear"} THEN {}
       ELSE LET r == ReferenceMap(heap, made.from)
            IN IF made.op \in {"setValue", "setEntry"}
               THEN {p \in r : p[1] # made.key} \cup {<<made.key, made.value>>}
               ELSE IF made.op \in {"deleteValue", "removeEntry"}
               THEN {p \in r : p[1] # made.key}
               ELSE {p \in r : p[1] \notin Range(made.keys)}

ReferenceGet(r, k) ==
    IF \E p \in r : p[1] = k THEN (CHOOSE p \in r : p[1] = k)[2] ELSE "undefined"

\* C24: for every sequence of operations from an empty NoOpContext (resp.
\* NoOpBaggage), getValue(k) (resp. getEntry(k), getAllEntries()) on the
\* resulting object returns what a reference finite map returns after the
\* same set, delete/remove, removeEntries and clear operations.
C24_FaithfulMap ==
    /\ \A c \in DOMAIN ctxs : \A k \in ContextKeys :
          ContextGetValue(ctxs, c, k) = ReferenceGet(ReferenceMap(ctxs, c), k)
    /\ \A b \in DOMAIN bags :
          /\ \A k \in BaggageKeys :
                BaggageGetEntry(bags, b, k) = ReferenceGet(ReferenceMap(bags, b), k)
          /\ LET all == BaggageGetAllEntries(bags, b)
             IN /\ {<<all[i].k, all[i].v>> : i \in DOMAIN all} = ReferenceMap(bags, b)
                /\ Len(all) = Cardinality(ReferenceMap(bags, b))

\* A baggage and a context each made by setting a key, which reads back on
\* the new object and is absent from the one it was derived from.
C24_Witness ==
    /\ \E b \in DOMAIN bags :
          /\ bags[b].made.op = "setEntry"
          /\ BaggageGetEntry(bags, b, bags[b].made.key) = bags[b].made.value
          /\ BaggageGetEntry(bags, bags[b].made.from, bags[b].made.key) = "undefined"
    /\ \E c \in DOMAIN ctxs :
          /\ ctxs[c].made.op = "setValue"
          /\ ContextGetValue(ctxs, c, ctxs[c].made.key) = ctxs[c].made.value

\* C27: a background load in which loading the provider or the provider's
\* init threw has caught the error: it ends (its promise resolves and the
\* waitForInit calls awaiting it are resumed) with one 'Failed to load'
\* warning logged, the facade still backed by the no-op telemetry init made
\* and the process-wide flag unset; no load ends in any other way than
\* upgraded or caught.
C27_FailedLoadCaughtNoHalfUpgrade ==
    /\ [](\A a \in DOMAIN loadAsync :
             /\ loadAsync[a].pc = "done" <=> loadAsync[a].outcome \in {"upgraded", "caught"}
             /\ loadAsync[a].outcome = "caught" =>
                    /\ instance # 0 => backing = [impl |-> "noop", name |-> "noop", by |-> "init"]
                    /\ ~activeFlag
                    /\ Cardinality({w \in DOMAIN warnings :
                                       warnings[w] = FailedToLoadWarning(a)}) = 1)
    /\ [][\A a \in DOMAIN loadAsync' :
             (loadAsync'[a].outcome = "caught" /\
              (a \notin DOMAIN loadAsync \/ loadAsync[a].outcome = "none")) =>
                 /\ activeFlag' = activeFlag
                 /\ instance # 0 => backing' = backing
                 /\ \A w \in DOMAIN waits :
                        (waits[w].pc = "awaitLoading" /\ waits[w].awaited = a) =>
                            \E j \in DOMAIN jobs' : jobs'[j] = [kind |-> "wait", id |-> w]]_vars

\* The provider's init threw in a background load that a waitForInit call was
\* awaiting: the load is done, the call has resolved with the facade, which is
\* still backed by the no-op telemetry.
C27_Witness ==
    /\ \E a \in DOMAIN loadAsync :
          /\ loadAsync[a].outcome = "caught"
          /\ plds[loadAsync[a].pld].provider = "real"
          /\ \E w \in DOMAIN waits : waits[w].awaited = a /\ waits[w].pc = "resolved"
    /\ backing = InitialBacking
    /\ ~activeFlag

\* C28: context.with(ctx, fn) makes ctx the active context while fn runs and
\* restores the context that was active before the call when fn returns and
\* when fn throws, at every nesting depth (LIFO restore); with returns what
\* fn returned or lets through what fn threw.
C28_WithRestoresLIFO ==
    /\ activeContext = IF wstack = <<>> THEN RootContext ELSE wstack[Len(wstack)].ctx
    /\ \A d \in DOMAIN wstack :
          wstack[d].prev = IF d = 1 THEN RootContext ELSE wstack[d - 1].ctx
    /\ \A n \in DOMAIN withs :
          /\ withs[n].during = withs[n].ctx
          /\ withs[n].after = withs[n].before
          /\ withs[n].outcome = withs[n].fn

\* A with call nested in the callback of another, for a different context,
\* ended by a throw, and the outer call then returned.
C28_Witness ==
    \E n, m \in DOMAIN withs :
        /\ n < m
        /\ withs[n].depth = 2 /\ withs[n].outcome.kind = "threw"
        /\ withs[m].depth = 1 /\ withs[m].outcome.kind = "returned"
        /\ withs[n].ctx # withs[m].ctx
        /\ withs[n].after = withs[m].ctx
        /\ wstack = <<>> /\ activeContext = RootContext

\* C29: for overlapping context.withAsync calls, a call's fn that runs after
\* a suspension point runs under that call's ctx, and once all the calls have
\* settled context.active() is the context that was active before the first
\* of them began.
C29_WithAsyncRestoresUnderOverlap ==
    /\ \A a \in DOMAIN acalls :
          acalls[a].resumedUnder \in {"none", acalls[a].ctx}
    /\ (\A a \in DOMAIN acalls : acalls[a].pc = "done") => ContextActive = RootContext

\* C30: startActiveSpan of the tracer trace.getTracer returns, called as
\* (name, fn), (name, options, fn) or (name, options, context, fn), invokes fn
\* exactly once with a span and returns fn's result, and leaves the span
\* trace.getActiveSpan() reports as it was.
C30_WrapperStartActiveSpanContract ==
    \A n \in DOMAIN wcalls :
        LET call == wcalls[n]
            fn == call.args[Len(call.args)]
        IN /\ call.received = <<WrapperNewSpan>>
           /\ call.outcome = [kind |-> IF fn.does = "throw" THEN "threw" ELSE "returned",
                              result |-> fn.value]
           /\ call.activeSpanAfter = call.activeSpanBefore
=============================================================================
